---- MODULE Spec2Model ----
(***************************************************************************)
(* Model of the bud plugin harness: the Plugin Manager (install, get_all,  *)
(* get, load, invoke) over an on-disk data root and a manifest cache, and  *)
(* the WASM provider (init, load, with_plugins, invoke) with its instance  *)
(* slot, plugin map and per-plugin stores.                                 *)
(***************************************************************************)
EXTENDS Integers, Sequences, FiniteSets, TLC

\* ------------------------------------------------------------------ bounds

\* Number of Provider.init calls a run may make.
MaxInits == 2
\* Cap on the guests' side-effect counters, summed over the live stores.
MaxCounter == 1

\* The plugin names (= directory names under the data root) in play.
Names == {"test-plugin", "good"}
Versions == {"0.1.0", "0.2.0"}

\* ------------------------------------------------------------------ paths

DataRoot == <<"data_root">>
\* Path::join
Join(path, component) == Append(path, component)
\* Path::file_name: the final path component
FileName(path) == path[Len(path)]

\* ------------------------------------------------------- manifests on disk

\* PluginConfigData: the fields the code reads (name) and one that tells two
\* manifests of the same name apart (version).
Manifest == [name : Names, version : Versions]

NoManifest == [name |-> "", version |-> ""]

\* Content of a plugin.json: absent, present but failing parse or schema, or
\* a valid manifest.
JsonMissing == [st |-> "missing", m |-> NoManifest]
JsonInvalid == [st |-> "invalid", m |-> NoManifest]
JsonValid(m) == [st |-> "valid", m |-> m]
PluginJson == {JsonMissing, JsonInvalid} \cup {JsonValid(m) : m \in Manifest}

\* What a directory holds: files (name -> content) and subdirectories
\* (name -> what they hold).
EmptyTree == [files |-> [k \in {} |-> ""], dirs |-> [k \in {} |-> ""]]
Readme == [files |-> [k \in {"README"} |-> "v1"], dirs |-> [k \in {} |-> ""]]
Assets ==
  [files |-> [k \in {"README"} |-> "v2"],
   dirs |-> [k \in {"assets", "empty"} |-> IF k = "assets" THEN Readme ELSE EmptyTree]]

\* A directory: whether it exists, its plugin.json, whether main.wasm is a
\* regular file in it, and what else it holds.
NoDir == [exists |-> FALSE, json |-> JsonMissing, wasm |-> FALSE, sub |-> EmptyTree]
Dirs == {NoDir} \cup [exists : {TRUE}, json : PluginJson, wasm : BOOLEAN, sub : {EmptyTree}]

\* The directories install is called on: not a directory, or a directory
\* without a usable plugin.json, or a plugin in the version being shipped
\* (the data root may hold another version from before).
Shipped == "0.1.0"
SourceDirs == {s \in Dirs : s.json.st = "valid" => s.json.m.version = Shipped}
\* The plugins the load and invoke tests install: a valid manifest, with
\* main.wasm or (to meet load's check for it) without.
ShippedDirs == {s \in SourceDirs : s.exists /\ s.json.st = "valid"}
\* Plugins that ship more than the two files, and what install refuses.
TreeDirs ==
  [exists : {TRUE}, json : {JsonValid(m) : m \in {c \in Manifest : c.version = Shipped}},
   wasm : BOOLEAN, sub : {EmptyTree, Readme, Assets}]
    \cup {NoDir, [exists |-> TRUE, json |-> JsonInvalid, wasm |-> TRUE, sub |-> Readme]}

\* -------------------------------------------------------------- root config

\* ConfigData
ConfigData(name, version, description) ==
  [name |-> name, version |-> version, description |-> description]
NoConfig == ConfigData("", "", "")

\* serde_json::Value as far as the schema tells values apart: a string, a
\* value of another type, an object (field -> value).
JsonString(str) == [t |-> "string", s |-> str]
JsonNumber == [t |-> "number", s |-> ""]
ConfigFields == {"name", "version", "description"}
JsonObjects ==
  UNION {[fields -> {JsonString("bud"), JsonString("0.1.0"), JsonNumber}] :
           fields \in SUBSET ConfigFields}
    \cup {[f \in ConfigFields \cup {"license"} |-> JsonString("bud")]}

\* bud.json: absent, there but unreadable, text that is not JSON, JSON that
\* is no object, or a JSON object.
NoObject == [f \in {} |-> JsonNumber]
FileJson(object) == [st |-> "json_object", object |-> object]
ConfigFiles ==
  [st : {"missing", "unreadable", "not_json", "json_other"}, object : {NoObject}]
    \cup {FileJson(o) : o \in JsonObjects}

\* tests/fixtures/bud.json
FixtureFile ==
  FileJson([f \in ConfigFields |->
              IF f = "name" THEN JsonString("bud")
              ELSE IF f = "version" THEN JsonString("0.1.0")
              ELSE JsonString("A test configuration")])

\* ------------------------------------------------------------------ values

\* ProviderValue, one record shape for every variant: v is the integer of I32,
\* I64 and Bool, f the number of F32 and F64, items the elements of Array.
NoFloat == [sign |-> 0, exp |-> 0, frac |-> <<>>]
I32(v) == [t |-> "I32", v |-> v, f |-> NoFloat, items |-> <<>>]
I64(v) == [t |-> "I64", v |-> v, f |-> NoFloat, items |-> <<>>]
Bool(b) == [t |-> "Bool", v |-> IF b THEN 1 ELSE 0, f |-> NoFloat, items |-> <<>>]
Null == [t |-> "Null", v |-> 0, f |-> NoFloat, items |-> <<>>]
String == [t |-> "String", v |-> 0, f |-> NoFloat, items |-> <<>>]
Array(xs) == [t |-> "Array", v |-> 0, f |-> NoFloat, items |-> xs]
Object == [t |-> "Object", v |-> 0, f |-> NoFloat, items |-> <<>>]
\* F32 and F64 carry an IEEE-754 number: sign, biased exponent and fraction,
\* the fraction in 16-bit limbs, most significant first (7+16 bits for f32,
\* 4+16+16+16 bits for f64).
F32(f) == [t |-> "F32", v |-> 0, f |-> f, items |-> <<>>]
F64(f) == [t |-> "F64", v |-> 0, f |-> f, items |-> <<>>]

\* wasmtime::Val: I32(i32), I64(i64), F32(u32), F64(u64), V128; the bit
\* patterns of F32 and F64 in 16-bit limbs, most significant first.
Val(t, v) == [t |-> t, v |-> v, bits |-> <<>>]
ValBits(t, bits) == [t |-> t, v |-> 0, bits |-> bits]
NoVal == Val("", 0)

\* from_bits that canonicalises every NaN to the default quiet NaN.
MutF32FromBitsCanonicalNaN(bits) ==
  IF (bits[1] % 32768) \div 128 = 255 /\ (bits[1] % 128 # 0 \/ bits[2] # 0)
    THEN [sign |-> 0, exp |-> 255, frac |-> <<64, 0>>]
    ELSE [sign |-> bits[1] \div 32768, exp |-> (bits[1] % 32768) \div 128,
          frac |-> <<bits[1] % 128, bits[2]>>]

\* f32::to_bits and f32::from_bits
F32ToBits(f) == <<f.sign * 32768 + f.exp * 128 + f.frac[1], f.frac[2]>>
F32FromBits(bits) ==
  [sign |-> bits[1] \div 32768, exp |-> (bits[1] % 32768) \div 128,
   frac |-> <<bits[1] % 128, bits[2]>>]
\* f64::to_bits and f64::from_bits
F64ToBits(f) == <<f.sign * 32768 + f.exp * 16 + f.frac[1], f.frac[2], f.frac[3], f.frac[4]>>
F64FromBits(bits) ==
  [sign |-> bits[1] \div 32768, exp |-> (bits[1] % 32768) \div 16,
   frac |-> <<bits[1] % 16, bits[2], bits[3], bits[4]>>]

I32Max == 2147483647
I32Min == -I32Max - 1
\* i32.add: addition modulo 2^32, in two's complement
AddI32(a, b) ==
  IF b > 0 /\ a > I32Max - b THEN (a - I32Max - 1) + (b - I32Max - 1)
  ELSE IF b < 0 /\ a < I32Min - b THEN (a + I32Max + 1) + (b + I32Max + 1)
  ELSE a + b

\* The argument lists the callers pass.
ArgLists ==
  {<<>>, <<I32(1)>>, <<I32(1), I32(2)>>, <<I32(I32Max), I32(1)>>, <<Bool(TRUE), I32(2)>>,
   <<I32(1), String>>, <<Null, Bool(TRUE)>>}

\* ------------------------------------------------------------------- state

VARIABLES
  rootExists,   \* the data root directory exists
  disk,         \* Names -> Dirs: the subdirectories of the data root
  plugin_cache, \* PluginManager.plugin_cache: name -> Manifest
  instance,     \* WasmProvider.instance: 0 = None, k = the WasmInstance of the k-th init
  plugins,      \* WasmProvider.plugins: name -> PluginInstance
  stores,       \* the live wasmtime Stores: store id -> guest state
  ret,          \* what the last call returned
  threads,      \* the callers sharing the provider: thread -> its call in progress
  mutex,        \* WasmProvider.plugins' Mutex: the threads holding its guard
  bud_json,     \* the file bud.json in the process working directory
  core,         \* the process' logger Once and the BudCore that build returned
  slot_lock,    \* WasmProvider.instance's RwLock: the threads holding its guards
  poisoned      \* the poison flags of the two locks

vars == <<rootExists, disk, plugin_cache, instance, plugins, stores, ret, threads, mutex, bud_json, core, slot_lock, poisoned>>

\* The threads that share the Arc<WasmProvider>.
Threads == {"t1", "t2"}

\* A thread's call: where it is in it, which Provider method it is, its
\* arguments, the store a load has created, whether the last call
\* succeeded, the guest state and the value an invoke is about to leave;
\* the WasmInstance whose engine a load has compiled the module with, whose
\* engine its Store belongs to and whose linker has instantiated it; and
\* whether the manager's with_plugins check has passed.
Idle ==
  [pc |-> "idle", op |-> "", name |-> "", function |-> "", args |-> <<>>, store |-> 0,
   ok |-> FALSE, guest |-> [counter |-> 0], val |-> Null,
   engine |-> 0, store_engine |-> 0, linker |-> 0, checked |-> FALSE]

EmptyMap == [k \in {} |-> 0]
Put(f, k, v) == [x \in DOMAIN f \cup {k} |-> IF x = k THEN v ELSE f[x]]

\* WasmProvider.instance's RwLock with no guard out, and the two locks
\* unpoisoned, as WasmProvider::new makes them.
Unlocked == [readers |-> {}, writer |-> {}]
NotPoisoned == [plugins |-> FALSE, instance |-> FALSE]

\* The shape of every return record.
Ret(op, name, kind, msg) ==
  [op |-> op, name |-> name, kind |-> kind, msg |-> msg,
   val |-> Null, wasm |-> NoVal, config |-> NoManifest, path |-> <<>>, infos |-> {},
   readDisk |-> FALSE, providerError |-> "", providerInvoked |-> FALSE,
   guestCalled |-> FALSE, root_config |-> NoConfig]

Contains(msg, token) == \E i \in 1..Len(msg) : msg[i] = token

\* ------------------------------------------------- config crate: plugin.rs

\* load_plugin_config(plugin_dir): FileNotFound when plugin.json does not
\* exist, a parse or validation error when it is not a valid manifest.
LoadPluginConfig(dir) ==
  IF ~dir.exists \/ dir.json.st = "missing"
    THEN [ok |-> FALSE, err |-> "FileNotFound", config |-> NoManifest]
  ELSE IF dir.json.st = "invalid"
    THEN [ok |-> FALSE, err |-> "ValidationError", config |-> NoManifest]
  ELSE [ok |-> TRUE, err |-> "", config |-> dir.json.m]

\* load_plugin_config_validated(plugin_dir, expected_name): the validator's
\* name-checked variant.
LoadPluginConfigValidated(dir, expected) ==
  LET r == LoadPluginConfig(dir) IN
  IF ~r.ok THEN r
  ELSE IF r.config.name # expected
    THEN [ok |-> FALSE, err |-> "ValidationError", config |-> NoManifest]
  ELSE r

\* The loop of load_all_plugins over the entries, in read_dir order: a valid
\* manifest is inserted under its own name (a mismatch with the directory
\* name only warns, a duplicate overwrites), a failure is recorded.
RECURSIVE ScanEntries(_, _, _, _)
ScanEntries(d, order, found, errors) ==
  IF order = <<>> THEN [plugins |-> found, errors |-> errors]
  ELSE LET plugin_name == Head(order)
           r == LoadPluginConfig(d[plugin_name])
       IN IF r.ok
            THEN ScanEntries(d, Tail(order), Put(found, r.config.name, r.config), errors)
            ELSE ScanEntries(d, Tail(order), found, errors \cup {plugin_name})

\* load_all_plugins that reports an error whenever nothing was loaded, a
\* root without subdirectories included.
MutLoadAllPluginsEmptyIsError(root, d, order, io) ==
  IF ~root THEN [ok |-> FALSE, err |-> "FileNotFound", plugins |-> EmptyMap]
  ELSE IF io = "read_dir_fail" THEN [ok |-> FALSE, err |-> "IoError", plugins |-> EmptyMap]
  ELSE LET s == ScanEntries(d, order, EmptyMap, {}) IN
       IF DOMAIN s.plugins = {}
         THEN [ok |-> FALSE, err |-> "ValidationError", plugins |-> EmptyMap]
         ELSE [ok |-> TRUE, err |-> "", plugins |-> s.plugins]

\* load_all_plugins(plugins_dir)
LoadAllPlugins(root, d, order, io) ==
  IF ~root THEN [ok |-> FALSE, err |-> "FileNotFound", plugins |-> EmptyMap]
  ELSE IF io = "read_dir_fail" THEN [ok |-> FALSE, err |-> "IoError", plugins |-> EmptyMap]
  ELSE LET s == ScanEntries(d, order, EmptyMap, {}) IN
       IF DOMAIN s.plugins = {} /\ s.errors # {}
         THEN [ok |-> FALSE, err |-> "ValidationError", plugins |-> EmptyMap]
         ELSE [ok |-> TRUE, err |-> "", plugins |-> s.plugins]

\* The orders in which read_dir can enumerate the existing subdirectories.
Subdirs(d) == {n \in Names : d[n].exists}
ReadDirOrders(d) ==
  {o \in [1..Cardinality(Subdirs(d)) -> Subdirs(d)] :
     \A i, j \in DOMAIN o : i # j => o[i] # o[j]}


\* --------------------------------------- config crate: common.rs, core.rs

\* read_and_parse_json(path): the text of the file, parsed.
ReadAndParseJson(file) ==
  IF file.st \in {"missing", "unreadable"} THEN [ok |-> FALSE, err |-> "IoError", value |-> file]
  ELSE IF file.st = "not_json" THEN [ok |-> FALSE, err |-> "ParseError", value |-> file]
  ELSE [ok |-> TRUE, err |-> "", value |-> file]

\* CONFIG_SCHEMA: an object; name, version and description, where present,
\* are strings; the three are required.
MutSchemaErrorsNothingRequired(value) ==
  IF value.st # "json_object" THEN {"type"}
  ELSE {<<f, "type">> : f \in {g \in ConfigFields \cap DOMAIN value.object :
                                 value.object[g].t # "string"}}

SchemaErrors(value) ==
  IF value.st # "json_object" THEN {"type"}
  ELSE {<<f, "type">> : f \in {g \in ConfigFields \cap DOMAIN value.object :
                                 value.object[g].t # "string"}}
         \cup {<<f, "required">> : f \in ConfigFields \ DOMAIN value.object}

\* validate_json(schema, value)
ValidateJson(value) ==
  IF SchemaErrors(value) # {} THEN [ok |-> FALSE, err |-> "ValidationError"]
  ELSE [ok |-> TRUE, err |-> ""]

\* serde_json::from_value::<ConfigData>: the three fields, as strings;
\* fields it does not know are skipped.
FromValue(value) ==
  IF value.st = "json_object" /\ ConfigFields \subseteq DOMAIN value.object
       /\ \A f \in ConfigFields : value.object[f].t = "string"
    THEN [ok |-> TRUE, err |-> "",
          config |-> ConfigData(value.object["name"].s, value.object["version"].s,
                                value.object["description"].s)]
    ELSE [ok |-> FALSE, err |-> "ParseError", config |-> NoConfig]

\* parse_config(path)
ParseConfig(file) ==
  LET value == ReadAndParseJson(file) IN
  IF ~value.ok THEN [ok |-> FALSE, err |-> value.err, config |-> NoConfig]
  ELSE IF ~ValidateJson(value.value).ok
    THEN [ok |-> FALSE, err |-> ValidateJson(value.value).err, config |-> NoConfig]
  ELSE FromValue(value.value)

\* load_config(): bud.json in the current directory. cwd is how
\* env::current_dir answers.
LoadConfig(cwd, file) ==
  IF cwd # "ok" THEN [ok |-> FALSE, err |-> "IoError", config |-> NoConfig]
  ELSE IF file.st = "missing" THEN [ok |-> FALSE, err |-> "FileNotFound", config |-> NoConfig]
  ELSE ParseConfig(file)

\* ------------------------------------------------- utils crate: lib.rs

\* A copy that takes the files of a directory and leaves its
\* subdirectories behind.
MutCopyTreeFilesOnly(src, dst) ==
  [files |-> [f \in DOMAIN dst.files \cup DOMAIN src.files |->
                IF f \in DOMAIN src.files THEN src.files[f] ELSE dst.files[f]],
   dirs |-> dst.dirs]

\* copy_dir_recursive(src, dst) on what the directories hold: every file is
\* copied over what dst has under its name, every subdirectory is created
\* in dst if need be and copied into.
RECURSIVE CopyTree(_, _)
CopyTree(src, dst) ==
  [files |-> [f \in DOMAIN dst.files \cup DOMAIN src.files |->
                IF f \in DOMAIN src.files THEN src.files[f] ELSE dst.files[f]],
   dirs |-> [d \in DOMAIN dst.dirs \cup DOMAIN src.dirs |->
               IF d \in DOMAIN src.dirs
                 THEN CopyTree(src.dirs[d],
                               IF d \in DOMAIN dst.dirs THEN dst.dirs[d] ELSE EmptyTree)
                 ELSE dst.dirs[d]]]

\* copy_dir_recursive(src, dst) of a plugin directory: create_dir_all(dst),
\* then plugin.json, main.wasm and the rest.
CopyDirRecursive(src, dst) ==
  [exists |-> TRUE,
   json |-> IF src.json.st = "missing" THEN dst.json ELSE src.json,
   wasm |-> src.wasm \/ dst.wasm,
   sub |-> CopyTree(src.sub, dst.sub)]

\* ------------------------------------------- core crate: plugin/manager.rs

\* install without the "already installed" check: it copies over what is
\* there.
MutInstallNoInstalledCheck(root, d, cache, src, io, partial) ==
  LET same(res) == [root |-> root, disk |-> d, cache |-> cache, res |-> res]
      cfg == LoadPluginConfig(src)
      plugin_name == cfg.config.name
      dest == FileName(Join(DataRoot, plugin_name))
  IN
  IF ~src.exists
    THEN same(Ret("install", "", "InstallError", <<"Path is not a directory">>))
  ELSE IF ~cfg.ok
    THEN same(Ret("install", "", "InstallError", <<"Failed to read plugin config: ", cfg.err>>))
  ELSE IF io = "mkdir_fail"
    THEN same(Ret("install", plugin_name, "IoError", <<"create_dir_all">>))
  ELSE IF io = "copy_fail"
    THEN [root |-> TRUE,
          disk |-> [d EXCEPT ![dest] = [exists |-> TRUE, json |-> partial.json,
                                        wasm |-> partial.wasm, sub |-> partial.sub]],
          cache |-> cache,
          res |-> Ret("install", plugin_name, "IoError", <<"copy_dir_recursive">>)]
  ELSE [root |-> TRUE,
        disk |-> [d EXCEPT ![dest] = CopyDirRecursive(src, [NoDir EXCEPT !.exists = TRUE])],
        cache |-> Put(cache, plugin_name, cfg.config),
        res |-> Ret("install", plugin_name, "Ok", <<>>)]

\* install that removes the destination again when the copy fails.
MutInstallCleansUp(root, d, cache, src, io, partial) ==
  LET same(res) == [root |-> root, disk |-> d, cache |-> cache, res |-> res]
      cfg == LoadPluginConfig(src)
      plugin_name == cfg.config.name
      dest_dir == Join(DataRoot, plugin_name)
      dest == FileName(dest_dir)
  IN
  IF ~src.exists
    THEN same(Ret("install", "", "InstallError", <<"Path is not a directory">>))
  ELSE IF ~cfg.ok
    THEN same(Ret("install", "", "InstallError", <<"Failed to read plugin config: ", cfg.err>>))
  ELSE IF d[dest].exists
    THEN same(Ret("install", plugin_name, "InstallError",
                  <<"plugin ", plugin_name, " is already installed">>))
  ELSE IF io = "mkdir_fail"
    THEN same(Ret("install", plugin_name, "IoError", <<"create_dir_all">>))
  ELSE IF io = "copy_fail"
    THEN [root |-> TRUE, disk |-> d, cache |-> cache,
          res |-> Ret("install", plugin_name, "IoError", <<"copy_dir_recursive">>)]
  ELSE [root |-> TRUE,
        disk |-> [d EXCEPT ![dest] = CopyDirRecursive(src, [NoDir EXCEPT !.exists = TRUE])],
        cache |-> Put(cache, plugin_name, cfg.config),
        res |-> Ret("install", plugin_name, "Ok", <<>>)]

\* PluginManager::install(dir_path). src is the source directory; io is how
\* the file system answers (create_dir_all or the copy may fail); partial is
\* what a failed copy leaves in the destination.
Install(root, d, cache, src, io, partial) ==
  LET same(res) == [root |-> root, disk |-> d, cache |-> cache, res |-> res]
      cfg == LoadPluginConfig(src)
      plugin_name == cfg.config.name
      dest_dir == Join(DataRoot, plugin_name)
      dest == FileName(dest_dir)
  IN
  IF ~src.exists
    THEN same(Ret("install", "", "InstallError", <<"Path is not a directory">>))
  ELSE IF ~cfg.ok
    THEN same(Ret("install", "", "InstallError", <<"Failed to read plugin config: ", cfg.err>>))
  ELSE IF d[dest].exists
    THEN same(Ret("install", plugin_name, "InstallError",
                  <<"plugin ", plugin_name, " is already installed">>))
  ELSE IF io = "mkdir_fail"
    THEN same(Ret("install", plugin_name, "IoError", <<"create_dir_all">>))
  ELSE IF io = "copy_fail"
    THEN [root |-> TRUE,
          disk |-> [d EXCEPT ![dest] = [exists |-> TRUE, json |-> partial.json,
                                        wasm |-> partial.wasm, sub |-> partial.sub]],
          cache |-> cache,
          res |-> Ret("install", plugin_name, "IoError", <<"copy_dir_recursive">>)]
  ELSE [root |-> TRUE,
        disk |-> [d EXCEPT ![dest] = CopyDirRecursive(src, [NoDir EXCEPT !.exists = TRUE])],
        cache |-> Put(cache, plugin_name, cfg.config),
        res |-> Ret("install", plugin_name, "Ok", <<>>)]

\* What a copy that fails part-way can have written.
PartialCopies(src) ==
  [json : {JsonMissing, src.json}, wasm : {FALSE, src.wasm}, sub : {EmptyTree, src.sub}]

\* get_all that merges the scan into the cache, keeping the entries the
\* cache already holds.
MutGetAllMerge(root, d, cache, order, io) ==
  LET r == LoadAllPlugins(root, d, order, io) IN
  IF ~r.ok
    THEN [cache |-> cache, res |-> Ret("get_all", "", "LoadError", <<r.err>>)]
    ELSE [cache |-> [k \in DOMAIN cache \cup DOMAIN r.plugins |->
                       IF k \in DOMAIN cache THEN cache[k] ELSE r.plugins[k]],
          res |-> [Ret("get_all", "", "Ok", <<>>) EXCEPT
                     !.readDisk = TRUE,
                     !.infos = {[config |-> r.plugins[name], path |-> Join(DataRoot, name)] :
                                  name \in DOMAIN r.plugins}]]

\* PluginManager::get_all()
GetAll(root, d, cache, order, io) ==
  LET r == LoadAllPlugins(root, d, order, io) IN
  IF ~r.ok
    THEN [cache |-> cache, res |-> Ret("get_all", "", "LoadError", <<r.err>>)]
    ELSE [cache |-> r.plugins,
          res |-> [Ret("get_all", "", "Ok", <<>>) EXCEPT
                     !.readDisk = TRUE,
                     !.infos = {[config |-> r.plugins[name], path |-> Join(DataRoot, name)] :
                                  name \in DOMAIN r.plugins}]]

\* get that returns what it loaded on a miss without inserting it.
MutGetNoInsert(d, cache, name) ==
  LET plugin_dir == Join(DataRoot, name) IN
  IF name \in DOMAIN cache
    THEN [cache |-> cache,
          res |-> [Ret("get", name, "Ok", <<>>) EXCEPT
                     !.config = cache[name], !.path = plugin_dir]]
  ELSE LET r == LoadPluginConfigValidated(d[FileName(plugin_dir)], name) IN
       IF ~r.ok
         THEN [cache |-> cache,
               res |-> [Ret("get", name, "LoadError",
                            <<"Failed to load plugin '", name, "': ", r.err>>) EXCEPT
                          !.readDisk = TRUE]]
         ELSE [cache |-> cache,
               res |-> [Ret("get", name, "Ok", <<>>) EXCEPT
                          !.config = r.config, !.path = plugin_dir, !.readDisk = TRUE]]

\* PluginManager::get(name)
Get(d, cache, name) ==
  LET plugin_dir == Join(DataRoot, name) IN
  IF name \in DOMAIN cache
    THEN [cache |-> cache,
          res |-> [Ret("get", name, "Ok", <<>>) EXCEPT
                     !.config = cache[name], !.path = plugin_dir]]
  ELSE LET r == LoadPluginConfigValidated(d[FileName(plugin_dir)], name) IN
       IF ~r.ok
         THEN [cache |-> cache,
               res |-> [Ret("get", name, "LoadError",
                            <<"Failed to load plugin '", name, "': ", r.err>>) EXCEPT
                          !.readDisk = TRUE]]
         ELSE [cache |-> Put(cache, name, r.config),
               res |-> [Ret("get", name, "Ok", <<>>) EXCEPT
                          !.config = r.config, !.path = plugin_dir, !.readDisk = TRUE]]


\* ----------------------------------------------------- the guest module

\* The module held by a loadable main.wasm: Sum(i32,i32)->i32,
\* Pair()->(i32,i64), Bump()->() which counts in a module global, and
\* Vec()->v128 which would count too if it were ever entered.
GuestExports == {"Sum", "Pair", "Bump", "Vec"}
Functions == GuestExports \cup {"Absent"}

GuestParams(f) == IF f = "Sum" THEN <<"I32", "I32">> ELSE <<>>

GuestResults(f) ==
  IF f = "Sum" THEN <<"I32">>
  ELSE IF f = "Pair" THEN <<"I32", "I64">>
  ELSE IF f = "Vec" THEN <<"V128">>
  ELSE <<>>

FreshGuest == [counter |-> 0]

\* Running an exported function on wasm values inside one store.
GuestRun(f, wasm_args, guest) ==
  IF f = "Sum"
    THEN [guest |-> guest,
          results |-> <<Val("I32", AddI32(wasm_args[1].v, wasm_args[2].v))>>]
  ELSE IF f = "Pair"
    THEN [guest |-> guest, results |-> <<Val("I32", 7), Val("I64", 99)>>]
  ELSE IF f = "Bump"
    THEN [guest |-> [guest EXCEPT !.counter = @ + 1], results |-> <<>>]
  ELSE [guest |-> [guest EXCEPT !.counter = @ + 1], results |-> <<Val("V128", 0)>>]

\* ------------------------------------------------ wasm-provider: lib.rs

\* Display of a ProviderError (the thiserror attributes): LoadFailed prints
\* without its message, InvocationFailed with it.
ProviderErrorToString(kind, msg) ==
  IF kind = "LoadFailed" THEN <<"Load failed">>
  ELSE IF kind = "InvocationFailed" THEN <<"Function invocation failed: ">> \o msg
  ELSE <<"Init failed">>

\* provider_value_to_val that lets a Bool through as the I32 0 or 1.
MutProviderValueToValBoolAsI32(value) ==
  IF value.t \in {"I32", "I64", "Bool"}
    THEN [ok |-> TRUE, val |-> Val(IF value.t = "Bool" THEN "I32" ELSE value.t, value.v),
          msg |-> <<>>]
  ELSE IF value.t = "F32"
    THEN [ok |-> TRUE, val |-> ValBits("F32", F32ToBits(value.f)), msg |-> <<>>]
  ELSE IF value.t = "F64"
    THEN [ok |-> TRUE, val |-> ValBits("F64", F64ToBits(value.f)), msg |-> <<>>]
  ELSE IF value.t = "Null"
    THEN [ok |-> FALSE, val |-> NoVal,
          msg |-> <<"Null type not supported for WASM calls.">>]
  ELSE [ok |-> FALSE, val |-> NoVal,
        msg |-> <<"Complex types (String, Array, Object) not supported for WASM calls.">>]

\* provider_value_to_val
ProviderValueToVal(value) ==
  IF value.t \in {"I32", "I64"}
    THEN [ok |-> TRUE, val |-> Val(value.t, value.v), msg |-> <<>>]
  ELSE IF value.t = "F32"
    THEN [ok |-> TRUE, val |-> ValBits("F32", F32ToBits(value.f)), msg |-> <<>>]
  ELSE IF value.t = "F64"
    THEN [ok |-> TRUE, val |-> ValBits("F64", F64ToBits(value.f)), msg |-> <<>>]
  ELSE IF value.t = "Null"
    THEN [ok |-> FALSE, val |-> NoVal,
          msg |-> <<"Null type not supported for WASM calls.">>]
  ELSE IF value.t = "Bool"
    THEN [ok |-> FALSE, val |-> NoVal,
          msg |-> <<"Bool", " type not supported for WASM calls.">>]
  ELSE [ok |-> FALSE, val |-> NoVal,
        msg |-> <<"Complex types (String, Array, Object) not supported for WASM calls.">>]

\* val_to_provider_value
ValToProviderValue(val) ==
  IF val.t = "I32" THEN [ok |-> TRUE, value |-> I32(val.v), msg |-> <<>>]
  ELSE IF val.t = "I64" THEN [ok |-> TRUE, value |-> I64(val.v), msg |-> <<>>]
  ELSE IF val.t = "F32" THEN [ok |-> TRUE, value |-> F32(F32FromBits(val.bits)), msg |-> <<>>]
  ELSE IF val.t = "F64" THEN [ok |-> TRUE, value |-> F64(F64FromBits(val.bits)), msg |-> <<>>]
  ELSE IF val.t = "V128" THEN [ok |-> FALSE, value |-> Null, msg |-> <<"V128 type not supported.">>]
  ELSE [ok |-> FALSE, value |-> Null, msg |-> <<"Unsupported WASM value type">>]

NoPluginInstance == [store |-> 0, module_name |-> ""]

\* Store::new handing out a store that is already live.
MutFreshStoreShared(st) ==
  IF DOMAIN st = {} THEN 1 ELSE CHOOSE i \in DOMAIN st : TRUE

\* Store::new: a store no live store is identical to.
FreshStore(st) ==
  CHOOSE i \in 1..(Cardinality(DOMAIN st) + 1) :
    i \notin DOMAIN st /\ \A j \in 1..(i - 1) : j \in DOMAIN st

Drop(st, ids) == [i \in DOMAIN st \ ids |-> st[i]]

\* WasmInstance: the engine (the k-th one built), built from
\* Config::default(), and the linker with WASI preview 1 added.
WasmInstance(k) == [engine |-> k, config |-> "default", wasi |-> TRUE]
NoInstance == [engine |-> 0, config |-> "", wasi |-> FALSE]

\* init that starts the provider over: it forgets the loaded plugins.
MutProviderInitDropsPlugins(slot, plugs, st, engine) ==
  IF engine # "ok"
    THEN [instance |-> slot, plugins |-> plugs, stores |-> st,
          ok |-> FALSE, kind |-> "InitFailed", new_instance |-> NoInstance]
    ELSE [instance |-> slot + 1, plugins |-> EmptyMap, stores |-> EmptyMap,
          ok |-> TRUE, kind |-> "", new_instance |-> WasmInstance(slot + 1)]

\* WasmProvider::init. engine is how Engine::new and the WASI linker set-up
\* answer.
ProviderInit(slot, plugs, st, engine) ==
  IF engine # "ok"
    THEN [instance |-> slot, plugins |-> plugs, stores |-> st,
          ok |-> FALSE, kind |-> "InitFailed", new_instance |-> NoInstance]
    ELSE [instance |-> slot + 1, plugins |-> plugs, stores |-> st,
          ok |-> TRUE, kind |-> "", new_instance |-> WasmInstance(slot + 1)]

\* load that registers the instance under the first path component instead
\* of the last.
MutProviderLoadFirstComponent(d, slot, plugs, st, path, engine) ==
  LET plugin_dir == FileName(path)
      plugin_name == path[1]
      fail(msg) == [plugins |-> plugs, stores |-> st, ok |-> FALSE,
                    kind |-> "LoadFailed", msg |-> msg]
      store == FreshStore(st)
      plugin_instance == [store |-> store, module_name |-> plugin_name]
      dropped == IF plugin_name \in DOMAIN plugs THEN {plugs[plugin_name].store} ELSE {}
  IN
  IF ~(d[plugin_dir].exists /\ d[plugin_dir].wasm)
    THEN fail(<<"main.wasm", " not found: ", plugin_dir>>)
  ELSE IF slot = 0
    THEN fail(<<"Provider not initialized. Call init() first.">>)
  ELSE IF engine = "compile_err"
    THEN fail(<<"Failed to compile plugin '", plugin_name, "'">>)
  ELSE IF engine = "instantiate_err"
    THEN fail(<<"Failed to instantiate plugin '", plugin_name, "'">>)
  ELSE [plugins |-> Put(plugs, plugin_name, plugin_instance),
        stores |-> Drop(Put(st, store, FreshGuest), dropped),
        ok |-> TRUE, kind |-> "", msg |-> <<>>]

\* load that names the plugin after its manifest instead of its directory.
MutProviderLoadPrepareManifestName(d, slot, st, path, engine) ==
  LET plugin_dir == FileName(path)
      plugin_name == IF d[plugin_dir].json.st = "valid" THEN d[plugin_dir].json.m.name
                     ELSE FileName(path)
      fail(msg) == [stores |-> st, ok |-> FALSE, kind |-> "LoadFailed", msg |-> msg,
                    plugin_name |-> plugin_name, plugin_instance |-> NoPluginInstance]
      store == FreshStore(st)
      plugin_instance == [store |-> store, module_name |-> plugin_name]
  IN
  IF ~(d[plugin_dir].exists /\ d[plugin_dir].wasm)
    THEN fail(<<"main.wasm", " not found: ", plugin_dir>>)
  ELSE IF slot = 0
    THEN fail(<<"Provider not initialized. Call init() first.">>)
  ELSE IF engine = "compile_err"
    THEN fail(<<"Failed to compile plugin '", plugin_name, "'">>)
  ELSE IF engine = "instantiate_err"
    THEN fail(<<"Failed to instantiate plugin '", plugin_name, "'">>)
  ELSE [stores |-> Put(st, store, FreshGuest), ok |-> TRUE, kind |-> "", msg |-> <<>>,
        plugin_name |-> plugin_name, plugin_instance |-> plugin_instance]

\* load that does not look into the instance slot.
MutProviderLoadPrepareNoSlotCheck(d, slot, st, path, engine) ==
  LET plugin_dir == FileName(path)
      plugin_name == FileName(path)
      fail(msg) == [stores |-> st, ok |-> FALSE, kind |-> "LoadFailed", msg |-> msg,
                    plugin_name |-> plugin_name, plugin_instance |-> NoPluginInstance]
      store == FreshStore(st)
      plugin_instance == [store |-> store, module_name |-> plugin_name]
  IN
  IF ~(d[plugin_dir].exists /\ d[plugin_dir].wasm)
    THEN fail(<<"main.wasm", " not found: ", plugin_dir>>)
  ELSE IF engine = "compile_err"
    THEN fail(<<"Failed to compile plugin '", plugin_name, "'">>)
  ELSE IF engine = "instantiate_err"
    THEN fail(<<"Failed to instantiate plugin '", plugin_name, "'">>)
  ELSE [stores |-> Put(st, store, FreshGuest), ok |-> TRUE, kind |-> "", msg |-> <<>>,
        plugin_name |-> plugin_name, plugin_instance |-> plugin_instance]

\* WasmProvider::load(path) up to the instantiation: the file check, the
\* plugin name, the instance slot, compilation, the new Store and the
\* instance in it. engine is how compilation and instantiation of the file
\* answer. The new store is live from here on, registered or not.
ProviderLoadPrepare(d, slot, st, path, engine) ==
  LET plugin_dir == FileName(path)
      plugin_name == FileName(path)
      fail(msg) == [stores |-> st, ok |-> FALSE, kind |-> "LoadFailed", msg |-> msg,
                    plugin_name |-> plugin_name, plugin_instance |-> NoPluginInstance]
      store == FreshStore(st)
      plugin_instance == [store |-> store, module_name |-> plugin_name]
  IN
  IF ~(d[plugin_dir].exists /\ d[plugin_dir].wasm)
    THEN fail(<<"main.wasm", " not found: ", plugin_dir>>)
  ELSE IF slot = 0
    THEN fail(<<"Provider not initialized. Call init() first.">>)
  ELSE IF engine = "compile_err"
    THEN fail(<<"Failed to compile plugin '", plugin_name, "'">>)
  ELSE IF engine = "instantiate_err"
    THEN fail(<<"Failed to instantiate plugin '", plugin_name, "'">>)
  ELSE [stores |-> Put(st, store, FreshGuest), ok |-> TRUE, kind |-> "", msg |-> <<>>,
        plugin_name |-> plugin_name, plugin_instance |-> plugin_instance]

\* An insert that leaves a registered name with the instance it has.
MutProviderLoadInsertKeepsOld(plugs, st, plugin_name, plugin_instance) ==
  IF plugin_name \in DOMAIN plugs
    THEN [plugins |-> plugs, stores |-> Drop(st, {plugin_instance.store})]
    ELSE [plugins |-> Put(plugs, plugin_name, plugin_instance), stores |-> st]

\* The end of WasmProvider::load, under the plugin-map lock: the insert,
\* which drops the instance registered before, and its store with it.
ProviderLoadInsert(plugs, st, plugin_name, plugin_instance) ==
  LET dropped == IF plugin_name \in DOMAIN plugs THEN {plugs[plugin_name].store} ELSE {} IN
  [plugins |-> Put(plugs, plugin_name, plugin_instance), stores |-> Drop(st, dropped)]

\* load that unregisters the plugin when it fails.
MutProviderLoadFailUnregisters(d, slot, plugs, st, path, engine) ==
  LET p == ProviderLoadPrepare(d, slot, st, path, engine)
      dropped == IF p.plugin_name \in DOMAIN plugs THEN {plugs[p.plugin_name].store} ELSE {}
  IN
  IF ~p.ok
    THEN [plugins |-> [q \in DOMAIN plugs \ {p.plugin_name} |-> plugs[q]],
          stores |-> Drop(st, dropped), ok |-> FALSE, kind |-> p.kind, msg |-> p.msg]
    ELSE LET i == ProviderLoadInsert(plugs, p.stores, p.plugin_name, p.plugin_instance) IN
         [plugins |-> i.plugins, stores |-> i.stores, ok |-> TRUE, kind |-> "", msg |-> <<>>]

\* WasmProvider::load(path), start to end.
ProviderLoad(d, slot, plugs, st, path, engine) ==
  LET p == ProviderLoadPrepare(d, slot, st, path, engine) IN
  IF ~p.ok
    THEN [plugins |-> plugs, stores |-> st, ok |-> FALSE, kind |-> p.kind, msg |-> p.msg]
    ELSE LET i == ProviderLoadInsert(plugs, p.stores, p.plugin_name, p.plugin_instance) IN
         [plugins |-> i.plugins, stores |-> i.stores, ok |-> TRUE, kind |-> "", msg |-> <<>>]

\* The first argument that provider_value_to_val rejects, 0 if none.
FirstBadArg(args) ==
  IF \E i \in 1..Len(args) : ~ProviderValueToVal(args[i]).ok
    THEN CHOOSE i \in 1..Len(args) :
           /\ ~ProviderValueToVal(args[i]).ok
           /\ \A j \in 1..(i - 1) : ProviderValueToVal(args[j]).ok
    ELSE 0

\* The result types invoke lets through, V128 among them.
MutNumericTypesWithV128 == {"I32", "I64", "F32", "F64", "V128"}

NumericTypes == {"I32", "I64", "F32", "F64"}

\* The zeroed result buffer invoke prepares from the function's signature.
ZeroVal(ty) ==
  IF ty = "F32" THEN ValBits("F32", <<0, 0>>)
  ELSE IF ty = "F64" THEN ValBits("F64", <<0, 0, 0, 0>>)
  ELSE Val(ty, 0)

\* The first result that val_to_provider_value rejects, 0 if none.
FirstBadResult(results) ==
  IF \E i \in 1..Len(results) : ~ValToProviderValue(results[i]).ok
    THEN CHOOSE i \in 1..Len(results) :
           /\ ~ValToProviderValue(results[i]).ok
           /\ \A j \in 1..(i - 1) : ValToProviderValue(results[j]).ok
    ELSE 0

\* The tail of invoke that returns only the first of several results.
MutResultValueFirstOnly(results) ==
  LET converted == [i \in 1..Len(results) |-> ValToProviderValue(results[i]).value] IN
  IF Len(results) = 0 THEN [ok |-> TRUE, value |-> Null, msg |-> <<>>]
  ELSE ValToProviderValue(results[1])

\* The tail of invoke: the results converted back, Null for none, the value
\* for one, an Array in order for several; the first failing conversion is
\* the error.
ResultValue(results) ==
  LET converted == [i \in 1..Len(results) |-> ValToProviderValue(results[i]).value]
      badres == FirstBadResult(results)
  IN
  IF Len(results) = 0 THEN [ok |-> TRUE, value |-> Null, msg |-> <<>>]
  ELSE IF Len(results) = 1 THEN ValToProviderValue(results[1])
  ELSE IF badres # 0 THEN [ok |-> FALSE, value |-> Null,
                           msg |-> ValToProviderValue(results[badres]).msg]
  ELSE [ok |-> TRUE, value |-> Array(converted), msg |-> <<>>]

\* invoke that unregisters the plugin when the function is not exported.
MutProviderInvokeDropsPlugin(plugs, st, plugin_name, function, args) ==
  LET fail(kind, msg) == [plugins |-> plugs, stores |-> st, ok |-> FALSE, kind |-> kind,
                          msg |-> msg, val |-> Null, results |-> <<>>, guestCalled |-> FALSE]
      bad == FirstBadArg(args)
      wasm_args == [i \in 1..Len(args) |-> ProviderValueToVal(args[i]).val]
      results_ty == GuestResults(function)
  IN
  IF plugin_name \notin DOMAIN plugs
    THEN fail("LoadFailed", <<"Plugin '", plugin_name, "' not found">>)
  ELSE IF function \notin GuestExports
    THEN [fail("InvocationFailed",
               <<"Function '", function, "' not found in plugin '", plugin_name, "'">>)
            EXCEPT !.plugins = [q \in DOMAIN plugs \ {plugin_name} |-> plugs[q]]]
  ELSE IF bad # 0
    THEN fail("InvocationFailed", ProviderValueToVal(args[bad]).msg)
  ELSE IF \E i \in 1..Len(results_ty) : results_ty[i] \notin NumericTypes
    THEN fail("InvocationFailed", <<"WASM function '", function, "' in plugin '", plugin_name,
                                    "' returns unsupported type">>)
  ELSE IF [i \in 1..Len(wasm_args) |-> wasm_args[i].t] # GuestParams(function)
    \* func.call checks the arguments against the signature before entering
    THEN fail("InvocationFailed", <<"Failed to call function '", function, "' in plugin '",
                                    plugin_name, "'">>)
  ELSE LET id == plugs[plugin_name].store
           buffer == [i \in 1..Len(results_ty) |-> ZeroVal(results_ty[i])]
           run == GuestRun(function, wasm_args, st[id])
           \* func.call writes the guest's results into the buffer
           results == [i \in 1..Len(buffer) |-> run.results[i]]
           value == ResultValue(results)
           after == [st EXCEPT ![id] = run.guest]
       IN [plugins |-> plugs, stores |-> after, ok |-> value.ok,
           kind |-> IF value.ok THEN "" ELSE "InvocationFailed", msg |-> value.msg,
           val |-> value.value, results |-> results, guestCalled |-> TRUE]

\* WasmProvider::invoke(plugin_name, function, args)
ProviderInvoke(plugs, st, plugin_name, function, args) ==
  LET fail(kind, msg) == [plugins |-> plugs, stores |-> st, ok |-> FALSE, kind |-> kind,
                          msg |-> msg, val |-> Null, results |-> <<>>, guestCalled |-> FALSE]
      bad == FirstBadArg(args)
      wasm_args == [i \in 1..Len(args) |-> ProviderValueToVal(args[i]).val]
      results_ty == GuestResults(function)
  IN
  IF plugin_name \notin DOMAIN plugs
    THEN fail("LoadFailed", <<"Plugin '", plugin_name, "' not found">>)
  ELSE IF function \notin GuestExports
    THEN fail("InvocationFailed",
              <<"Function '", function, "' not found in plugin '", plugin_name, "'">>)
  ELSE IF bad # 0
    THEN fail("InvocationFailed", ProviderValueToVal(args[bad]).msg)
  ELSE IF \E i \in 1..Len(results_ty) : results_ty[i] \notin NumericTypes
    THEN fail("InvocationFailed", <<"WASM function '", function, "' in plugin '", plugin_name,
                                    "' returns unsupported type">>)
  ELSE IF [i \in 1..Len(wasm_args) |-> wasm_args[i].t] # GuestParams(function)
    \* func.call checks the arguments against the signature before entering
    THEN fail("InvocationFailed", <<"Failed to call function '", function, "' in plugin '",
                                    plugin_name, "'">>)
  ELSE LET id == plugs[plugin_name].store
           buffer == [i \in 1..Len(results_ty) |-> ZeroVal(results_ty[i])]
           run == GuestRun(function, wasm_args, st[id])
           \* func.call writes the guest's results into the buffer
           results == [i \in 1..Len(buffer) |-> run.results[i]]
           value == ResultValue(results)
           after == [st EXCEPT ![id] = run.guest]
       IN [plugins |-> plugs, stores |-> after, ok |-> value.ok,
           kind |-> IF value.ok THEN "" ELSE "InvocationFailed", msg |-> value.msg,
           val |-> value.value, results |-> results, guestCalled |-> TRUE]

\* WasmProvider::unload(instance): todo!(), which panics before anything is
\* touched.
ProviderUnload(plugs, st, inst) ==
  [plugins |-> plugs, stores |-> st, panicked |-> TRUE, msg |-> <<"not yet implemented">>]

\* ------------------------------- core crate: plugin/manager.rs (provider)

\* PluginManager::load(name)
Load(d, cache, slot, plugs, st, name, engine) ==
  LET g == Get(d, cache, name) IN
  IF g.res.kind # "Ok"
    THEN [cache |-> g.cache, plugins |-> plugs, stores |-> st,
          res |-> [g.res EXCEPT !.op = "load"]]
  ELSE LET l == ProviderLoad(d, slot, plugs, st, g.res.path, engine) IN
       [cache |-> g.cache, plugins |-> l.plugins, stores |-> l.stores,
        res |-> IF l.ok
                  THEN [Ret("load", name, "Ok", <<>>) EXCEPT !.readDisk = g.res.readDisk]
                  ELSE [Ret("load", name, "LoadError", ProviderErrorToString(l.kind, l.msg))
                          EXCEPT !.readDisk = g.res.readDisk, !.providerError = l.kind]]

\* invoke without the with_plugins check: it goes straight to the provider.
MutInvokeNoLoadedCheck(d, cache, plugs, st, name, function, args) ==
  LET g == Get(d, cache, name) IN
  IF g.res.kind # "Ok"
    THEN [cache |-> g.cache, plugins |-> plugs, stores |-> st,
          res |-> [g.res EXCEPT !.op = "invoke"]]
  ELSE LET i == ProviderInvoke(plugs, st, name, function, args) IN
       [cache |-> g.cache, plugins |-> i.plugins, stores |-> i.stores,
        res |-> IF i.ok
                  THEN [Ret("invoke", name, "Ok", <<>>) EXCEPT
                          !.val = i.val, !.readDisk = g.res.readDisk,
                          !.providerInvoked = TRUE, !.guestCalled = i.guestCalled]
                  ELSE [Ret("invoke", name, "InvokeError", ProviderErrorToString(i.kind, i.msg))
                          EXCEPT !.readDisk = g.res.readDisk, !.providerError = i.kind,
                                 !.providerInvoked = TRUE, !.guestCalled = i.guestCalled]]

\* PluginManager::invoke(name, function, args)
Invoke(d, cache, plugs, st, name, function, args) ==
  LET g == Get(d, cache, name) IN
  IF g.res.kind # "Ok"
    THEN [cache |-> g.cache, plugins |-> plugs, stores |-> st,
          res |-> [g.res EXCEPT !.op = "invoke"]]
  ELSE IF name \notin DOMAIN plugs
    THEN [cache |-> g.cache, plugins |-> plugs, stores |-> st,
          res |-> [Ret("invoke", name, "LoadError",
                       <<"Plugin '", name, "' not found, You must ", "load the plugin first">>)
                     EXCEPT !.readDisk = g.res.readDisk]]
  ELSE LET i == ProviderInvoke(plugs, st, name, function, args) IN
       [cache |-> g.cache, plugins |-> i.plugins, stores |-> i.stores,
        res |-> IF i.ok
                  THEN [Ret("invoke", name, "Ok", <<>>) EXCEPT
                          !.val = i.val, !.readDisk = g.res.readDisk,
                          !.providerInvoked = TRUE, !.guestCalled = i.guestCalled]
                  ELSE [Ret("invoke", name, "InvokeError", ProviderErrorToString(i.kind, i.msg))
                          EXCEPT !.readDisk = g.res.readDisk, !.providerError = i.kind,
                                 !.providerInvoked = TRUE, !.guestCalled = i.guestCalled]]


\* PluginManager::new(config, provider). home is whether ProjectDirs finds
\* a home directory to derive the data root from.
NoManager == [built |-> FALSE, config |-> [arc |-> 0, data |-> NoConfig], provider |-> ""]
PluginManagerNew(config, provider, home) ==
  IF ~home THEN [ok |-> FALSE, err |-> "ProjectDirsError", manager |-> NoManager]
  ELSE [ok |-> TRUE, err |-> "",
        manager |-> [built |-> TRUE, config |-> config, provider |-> provider]]

\* ------------------------------------------------------ core crate: lib.rs

\* BudCore: the handle build returns. An Arc is the allocation it points to
\* (arc) and what is stored there.
NoBudCore ==
  [built |-> FALSE, package_name |-> "", config |-> [arc |-> 0, data |-> NoConfig],
   provider |-> "", provider_instance |-> NoInstance, plugin_manager |-> NoManager]

\* The builder's Arc<P>, made by BudCoreBuilder::new.
ProviderArc == "provider"

\* build that gives the manager a configuration of its own.
MutBuildCopiesConfig(logged, cwd, file, slot, plugs, st, engine, home) ==
  LET fail(kind, err, steps, i) ==
        [logged |-> TRUE, instance |-> i.instance, plugins |-> i.plugins, stores |-> i.stores,
         ok |-> FALSE, kind |-> kind, err |-> err, steps |-> steps, core |-> NoBudCore]
      untouched == [instance |-> slot, plugins |-> plugs, stores |-> st]
      loaded == LoadConfig(cwd, file)
      config == [arc |-> 1, data |-> loaded.config]
      provider_instance == ProviderInit(slot, plugs, st, engine)
      plugin_manager == PluginManagerNew([arc |-> 2, data |-> loaded.config], ProviderArc, home)
  IN
  IF ~loaded.ok
    THEN fail("Config", loaded.err, <<"init_logger", "load_config">>, untouched)
  ELSE IF ~provider_instance.ok
    THEN fail("ProviderInitFailed", provider_instance.kind,
              <<"init_logger", "load_config", "Provider.init">>, provider_instance)
  ELSE IF ~plugin_manager.ok
    THEN fail("Plugin", plugin_manager.err,
              <<"init_logger", "load_config", "Provider.init", "PluginManager::new">>,
              provider_instance)
  ELSE [logged |-> TRUE, instance |-> provider_instance.instance,
        plugins |-> provider_instance.plugins, stores |-> provider_instance.stores,
        ok |-> TRUE, kind |-> "", err |-> "",
        steps |-> <<"init_logger", "load_config", "Provider.init", "PluginManager::new">>,
        core |-> [built |-> TRUE, package_name |-> config.data.name, config |-> config,
                  provider |-> ProviderArc,
                  provider_instance |-> provider_instance.new_instance,
                  plugin_manager |-> plugin_manager.manager]]

\* BudCoreBuilder::build. logged is whether the logger's Once has run; steps
\* are the steps the call went through, in order.
Build(logged, cwd, file, slot, plugs, st, engine, home) ==
  LET fail(kind, err, steps, i) ==
        [logged |-> TRUE, instance |-> i.instance, plugins |-> i.plugins, stores |-> i.stores,
         ok |-> FALSE, kind |-> kind, err |-> err, steps |-> steps, core |-> NoBudCore]
      untouched == [instance |-> slot, plugins |-> plugs, stores |-> st]
      loaded == LoadConfig(cwd, file)
      config == [arc |-> 1, data |-> loaded.config]
      provider_instance == ProviderInit(slot, plugs, st, engine)
      plugin_manager == PluginManagerNew(config, ProviderArc, home)
  IN
  IF ~loaded.ok
    THEN fail("Config", loaded.err, <<"init_logger", "load_config">>, untouched)
  ELSE IF ~provider_instance.ok
    THEN fail("ProviderInitFailed", provider_instance.kind,
              <<"init_logger", "load_config", "Provider.init">>, provider_instance)
  ELSE IF ~plugin_manager.ok
    THEN fail("Plugin", plugin_manager.err,
              <<"init_logger", "load_config", "Provider.init", "PluginManager::new">>,
              provider_instance)
  ELSE [logged |-> TRUE, instance |-> provider_instance.instance,
        plugins |-> provider_instance.plugins, stores |-> provider_instance.stores,
        ok |-> TRUE, kind |-> "", err |-> "",
        steps |-> <<"init_logger", "load_config", "Provider.init", "PluginManager::new">>,
        core |-> [built |-> TRUE, package_name |-> config.data.name, config |-> config,
                  provider |-> ProviderArc,
                  provider_instance |-> provider_instance.new_instance,
                  plugin_manager |-> plugin_manager.manager]]

\* ------------------------------------------------------------ the machine

\* A fresh PluginManager over a fresh WasmProvider (PluginManager::new,
\* WasmProvider::new).
Fresh ==
  /\ plugin_cache = EmptyMap
  /\ instance = 0
  /\ plugins = EmptyMap
  /\ stores = EmptyMap
  /\ ret = Ret("new", "", "Ok", <<>>)
  /\ threads = [t \in Threads |-> Idle]
  /\ mutex = <<>>
  /\ core = [logged |-> FALSE, steps |-> <<>>, handle |-> NoBudCore]
  /\ slot_lock = Unlocked
  /\ poisoned = NotPoisoned

\* The harness on a data root nothing was installed in yet (the load and
\* invoke tests remove the target directory before they install).
Init ==
  /\ rootExists \in BOOLEAN
  /\ disk = [n \in Names |-> NoDir]
  /\ bud_json = FixtureFile
  /\ Fresh

\* The manager on a data root that holds whatever was put there before.
InitRoot ==
  /\ rootExists \in BOOLEAN
  /\ disk \in [Names -> Dirs]
  /\ (\E n \in Names : disk[n].exists) => rootExists
  /\ bud_json = FixtureFile
  /\ Fresh

IoOutcomes == {"ok", "mkdir_fail", "copy_fail"}
EngineOutcomes == {"ok", "compile_err", "instantiate_err"}

\* The file system matters to install only once the destination is free.
IoChoices(src) ==
  LET cfg == LoadPluginConfig(src) IN
  IF src.exists /\ cfg.ok /\ ~disk[cfg.config.name].exists THEN IoOutcomes ELSE {"ok"}

InstallStep(sources, outcomes) ==
  \E src \in sources :
    \E io \in IoChoices(src) \cap outcomes :
      \E partial \in IF io = "copy_fail" THEN PartialCopies(src) ELSE {src} :
        LET o == Install(rootExists, disk, plugin_cache, src, io, partial) IN
        /\ rootExists' = o.root
        /\ disk' = o.disk
        /\ plugin_cache' = o.cache
        /\ ret' = o.res
        /\ UNCHANGED <<instance, plugins, stores, threads, mutex, bud_json, core, slot_lock, poisoned>>

\* install of any directory, on a file system that may fail.
DoInstall == InstallStep(SourceDirs, IoOutcomes)

\* install of a shipped plugin, as the load and invoke tests set up.
DoInstallShipped == InstallStep(ShippedDirs, {"ok"})

DoGetAll ==
  \E order \in ReadDirOrders(disk), io \in {"ok", "read_dir_fail"} :
    LET o == GetAll(rootExists, disk, plugin_cache, order, io) IN
    /\ plugin_cache' = o.cache
    /\ ret' = o.res
    /\ UNCHANGED <<rootExists, disk, instance, plugins, stores, threads, mutex, bud_json, core, slot_lock, poisoned>>

DoGet ==
  \E name \in Names :
    LET o == Get(disk, plugin_cache, name) IN
    /\ plugin_cache' = o.cache
    /\ ret' = o.res
    /\ UNCHANGED <<rootExists, disk, instance, plugins, stores, threads, mutex, bud_json, core, slot_lock, poisoned>>

DoInit ==
  \E engine \in {"ok", "fail"} :
    LET o == ProviderInit(instance, plugins, stores, engine) IN
    /\ instance < MaxInits
    /\ instance' = o.instance
    /\ plugins' = o.plugins
    /\ stores' = o.stores
    /\ ret' = Ret("init", "", IF o.ok THEN "Ok" ELSE o.kind, <<>>)
    /\ UNCHANGED <<rootExists, disk, plugin_cache, threads, mutex, bud_json, core, slot_lock, poisoned>>

\* Compilation and instantiation are reached only with the manifest found,
\* main.wasm in place and the provider initialised.
EngineChoices(name) ==
  IF /\ Get(disk, plugin_cache, name).res.kind = "Ok"
     /\ disk[name].exists /\ disk[name].wasm
     /\ instance # 0
    THEN EngineOutcomes ELSE {"ok"}

DoLoad ==
  \E name \in Names :
    \E engine \in EngineChoices(name) :
      LET o == Load(disk, plugin_cache, instance, plugins, stores, name, engine) IN
      /\ plugin_cache' = o.cache
      /\ plugins' = o.plugins
      /\ stores' = o.stores
      /\ ret' = o.res
      /\ UNCHANGED <<rootExists, disk, instance, threads, mutex, bud_json, core, slot_lock, poisoned>>

\* The calls the callers make: Sum on every argument list, the other
\* functions without arguments.
CallsMade == ({"Sum"} \X ArgLists) \cup ((Functions \ {"Sum"}) \X {<<>>})

\* The function and the arguments are read only once the plugin is known
\* and loaded.
CallChoices(name) ==
  IF Get(disk, plugin_cache, name).res.kind = "Ok" /\ name \in DOMAIN plugins
    THEN CallsMade ELSE {<<"Sum", <<>>>>}

RECURSIVE SumCounters(_, _)
SumCounters(st, ids) ==
  IF ids = {} THEN 0
  ELSE LET i == CHOOSE i \in ids : TRUE IN st[i].counter + SumCounters(st, ids \ {i})

DoInvoke ==
  \E name \in Names :
    \E call \in CallChoices(name) :
      LET o == Invoke(disk, plugin_cache, plugins, stores, name, call[1], call[2]) IN
      /\ SumCounters(o.stores, DOMAIN o.stores) <= MaxCounter
      /\ plugin_cache' = o.cache
      /\ plugins' = o.plugins
      /\ stores' = o.stores
      /\ ret' = o.res
      /\ UNCHANGED <<rootExists, disk, instance, threads, mutex, bud_json, core, slot_lock, poisoned>>

\* Provider::unload is called with the WasmInstance that init returned.
DoUnload ==
  /\ instance # 0
  /\ LET o == ProviderUnload(plugins, stores, instance) IN
     /\ plugins' = o.plugins
     /\ stores' = o.stores
     /\ ret' = Ret("unload", "", IF o.panicked THEN "Panic" ELSE "Ok", o.msg)
  /\ UNCHANGED <<rootExists, disk, plugin_cache, instance, threads, mutex, bud_json, core, slot_lock, poisoned>>

Next ==
  DoInstallShipped \/ DoGetAll \/ DoGet \/ DoInit \/ DoLoad \/ DoInvoke \/ DoUnload

Spec == Init /\ [][Next]_vars

\* load_config called on its own, as the config crate's test does.
DoLoadConfig ==
  \E cwd \in {"ok", "fail"} :
    LET o == LoadConfig(cwd, bud_json) IN
    /\ ret' = [Ret("load_config", "", IF o.ok THEN "Ok" ELSE o.err, <<>>) EXCEPT
                 !.root_config = o.config]
    /\ UNCHANGED <<rootExists, disk, plugin_cache, instance, plugins, stores, threads, mutex,
                   bud_json, core, slot_lock, poisoned>>

\* BudCore::builder(provider).build(): the builder owns the provider, so a
\* provider is built on once.
DoBuild ==
  \E cwd \in {"ok", "fail"}, engine \in {"ok", "fail"}, home \in BOOLEAN :
    LET o == Build(core.logged, cwd, bud_json, instance, plugins, stores, engine, home) IN
    /\ core.steps = <<>>
    /\ instance < MaxInits
    /\ instance' = o.instance
    /\ plugins' = o.plugins
    /\ stores' = o.stores
    /\ plugin_cache' = IF o.ok THEN EmptyMap ELSE plugin_cache
    /\ core' = [logged |-> o.logged, steps |-> o.steps, handle |-> o.core]
    /\ ret' = Ret("build", "", IF o.ok THEN "Ok" ELSE o.kind, <<o.err>>)
    /\ UNCHANGED <<rootExists, disk, threads, mutex, bud_json, slot_lock, poisoned>>

\* A process started in a directory with any bud.json or none.
InitBuild ==
  /\ rootExists = FALSE
  /\ disk = [n \in Names |-> NoDir]
  /\ bud_json \in ConfigFiles
  /\ Fresh

NextBuild == DoLoadConfig \/ DoInit \/ DoBuild

SpecBuild == InitBuild /\ [][NextBuild]_vars

\* What the provider reads of a directory under the data root: whether it
\* is there, whether main.wasm is a file in it; the manifest it holds may
\* carry another name than the directory.
InitProvider ==
  /\ rootExists = TRUE
  /\ disk \in [Names -> {s \in Dirs : /\ s.json.st # "invalid"
                                      /\ s.json.st = "valid" => s.json.m.version = Shipped}]
  /\ bud_json = FixtureFile
  /\ Fresh

\* Provider.load(data_root/name) called on the provider itself.
DoProviderLoad ==
  \E name \in Names :
    \E engine \in IF disk[name].exists /\ disk[name].wasm /\ instance # 0
                    THEN EngineOutcomes ELSE {"ok"} :
      LET o == ProviderLoad(disk, instance, plugins, stores, Join(DataRoot, name), engine) IN
      /\ plugins' = o.plugins
      /\ stores' = o.stores
      /\ ret' = [Ret("Provider.load", name, IF o.ok THEN "Ok" ELSE o.kind, o.msg) EXCEPT
                   !.providerError = o.kind]
      /\ UNCHANGED <<rootExists, disk, plugin_cache, instance, threads, mutex, bud_json, core,
                     slot_lock, poisoned>>

\* Provider.invoke(name, function, args) called on the provider itself.
DoProviderInvoke ==
  \E name \in Names, call \in {<<"Bump", <<>>>>, <<"Sum", <<I32(1), I32(2)>>>>} :
    LET o == ProviderInvoke(plugins, stores, name, call[1], call[2]) IN
    /\ SumCounters(o.stores, DOMAIN o.stores) <= MaxCounter
    /\ plugins' = o.plugins
    /\ stores' = o.stores
    /\ ret' = [Ret("Provider.invoke", name, IF o.ok THEN "Ok" ELSE o.kind, o.msg) EXCEPT
                 !.val = o.val, !.providerError = o.kind, !.providerInvoked = TRUE,
                 !.guestCalled = o.guestCalled]
    /\ UNCHANGED <<rootExists, disk, plugin_cache, instance, threads, mutex, bud_json, core,
                   slot_lock, poisoned>>

NextProvider == DoInit \/ DoProviderLoad \/ DoProviderInvoke \/ DoLoad

SpecProvider == InitProvider /\ [][NextProvider]_vars

\* install of plugins that ship subdirectories, on a file system that may
\* fail, into a data root nothing was installed in yet.
DoInstallTree == InstallStep(TreeDirs, IoOutcomes)

NextInstall == DoInstallTree \/ DoGet

SpecInstall == Init /\ [][NextInstall]_vars

\* The values and wasm values the marshalling functions are applied to:
\* integers at and around their limits, and floats of every class (zeros,
\* subnormals, normals, infinities, quiet and signalling NaNs with payloads).
Floats32 ==
  [sign : 0..1, exp : {0, 1, 127, 254, 255},
   frac : {<<0, 0>>, <<0, 1>>, <<64, 0>>, <<64, 1>>, <<127, 65535>>}]
Floats64 ==
  [sign : 0..1, exp : {0, 1, 1023, 2046, 2047},
   frac : {<<0, 0, 0, 0>>, <<0, 0, 0, 1>>, <<8, 0, 0, 0>>, <<8, 0, 0, 1>>,
           <<15, 65535, 65535, 65535>>}]
Ints == {I32Min, -1, 0, 1, I32Max}
NumericValues ==
  {I32(i) : i \in Ints} \cup {I64(i) : i \in Ints}
    \cup {F32(f) : f \in Floats32} \cup {F64(f) : f \in Floats64}
NonNumericValues == {Null, Bool(TRUE), Bool(FALSE), String, Array(<<I32(1)>>), Object}
Values == NumericValues \cup NonNumericValues
Vals ==
  {Val("I32", i) : i \in Ints} \cup {Val("I64", i) : i \in Ints}
    \cup {ValBits("F32", <<h, l>>) : h \in {0, 32640, 32704, 65472, 65535}, l \in {0, 1, 65535}}
    \cup {ValBits("F64", <<h, 0, l, l>>) : h \in {0, 32752, 32760, 65528, 65535}, l \in {0, 65535}}
    \cup {Val("V128", 0), Val("FuncRef", 0)}

\* provider_value_to_val applied to a value.
DoToVal ==
  \E value \in Values :
    LET r == ProviderValueToVal(value) IN
    /\ ret' = [Ret("provider_value_to_val", "", IF r.ok THEN "Ok" ELSE "InvocationFailed", r.msg)
                EXCEPT !.val = value, !.wasm = r.val]
    /\ UNCHANGED <<rootExists, disk, plugin_cache, instance, plugins, stores, threads, mutex, bud_json, core, slot_lock, poisoned>>

\* val_to_provider_value applied to a wasm value: any, or the one that
\* provider_value_to_val just produced.
DoFromVal ==
  \E val \in Vals \cup {ret.wasm} :
    LET r == ValToProviderValue(val) IN
    /\ val # NoVal
    /\ ret' = [Ret("val_to_provider_value", "", IF r.ok THEN "Ok" ELSE "InvocationFailed", r.msg)
                EXCEPT !.val = r.value, !.wasm = val]
    /\ UNCHANGED <<rootExists, disk, plugin_cache, instance, plugins, stores, threads, mutex, bud_json, core, slot_lock, poisoned>>

NextMarshal == DoToVal \/ DoFromVal

\* The two conversions on their own, as invoke applies them to arguments
\* and results.
SpecMarshal == Init /\ [][NextMarshal]_vars

\* ------------------------------------------- callers sharing the provider

\* Both shipped plugins installed and the provider initialised: where the
\* callers that share the Arc<WasmProvider> start.
InitConc ==
  /\ rootExists = TRUE
  /\ disk = [n \in Names |->
               [exists |-> TRUE, json |-> JsonValid([name |-> n, version |-> Shipped]),
                wasm |-> TRUE, sub |-> EmptyTree]]
  /\ plugin_cache = [n \in Names |-> [name |-> n, version |-> Shipped]]
  /\ instance = 1
  /\ plugins = EmptyMap
  /\ stores = EmptyMap
  /\ ret = Ret("init", "", "Ok", <<>>)
  /\ threads = [t \in Threads |-> Idle]
  /\ mutex = <<>>
  /\ bud_json = FixtureFile
  /\ core = [logged |-> FALSE, steps |-> <<>>, handle |-> NoBudCore]
  /\ slot_lock = Unlocked
  /\ poisoned = NotPoisoned

\* A lock that lets a caller in whoever holds the guard.
MutCanLockAlways(m) == TRUE

\* Mutex::lock returns once no other thread holds the guard.
CanLock(m) == m = <<>>

\* A guard that is never dropped.
MutUnlockKeepsGuard(m, t) == m

\* The guard dropped at the end of the function.
Unlock(m, t) == SelectSeq(m, LAMBDA x : x # t)

\* The calls the concurrent callers make.
CallsConc == {<<"Bump", <<>>>>, <<"Absent", <<>>>>}

InFlightBumps ==
  Cardinality({u \in Threads : threads[u].pc \in {"calling", "locked", "in_guest"}
                                /\ threads[u].function = "Bump"})

\* A thread calls Provider.invoke(name, function, args).
DoThreadCall ==
  \E t \in Threads, name \in Names, call \in CallsConc :
    /\ threads[t].pc = "idle"
    /\ call[1] = "Bump" => SumCounters(stores, DOMAIN stores) + InFlightBumps < MaxCounter
    /\ threads' = [threads EXCEPT ![t] =
                     [Idle EXCEPT !.pc = "calling", !.op = "invoke", !.name = name,
                                  !.function = call[1], !.args = call[2]]]
    /\ UNCHANGED <<rootExists, disk, plugin_cache, instance, plugins, stores, ret, mutex, bud_json, core, slot_lock, poisoned>>

\* invoke takes the plugin-map lock.
DoThreadLock ==
  \E t \in Threads :
    /\ threads[t].pc = "calling"
    /\ CanLock(mutex)
    /\ mutex' = Append(mutex, t)
    /\ threads' = [threads EXCEPT ![t].pc = "locked"]
    /\ UNCHANGED <<rootExists, disk, plugin_cache, instance, plugins, stores, ret, bud_json, core, slot_lock, poisoned>>

\* invoke from the lookup to func.call: it returns an error, dropping the
\* guard, or enters the guest, which works on its store's state.
DoThreadEnter ==
  \E t \in Threads :
    LET f == threads[t]
        o == ProviderInvoke(plugins, stores, f.name, f.function, f.args)
    IN
    /\ f.pc = "locked"
    /\ IF o.guestCalled
         THEN /\ threads' = [threads EXCEPT ![t].pc = "in_guest", ![t].ok = o.ok,
                                            ![t].guest = o.stores[plugins[f.name].store],
                                            ![t].val = o.val]
              /\ UNCHANGED <<plugins, stores, ret, mutex, bud_json, core, slot_lock, poisoned>>
         ELSE /\ threads' = [threads EXCEPT ![t] = Idle]
              /\ plugins' = o.plugins
              /\ stores' = o.stores
              /\ mutex' = Unlock(mutex, t)
              /\ ret' = [Ret("Provider.invoke", f.name, o.kind, o.msg) EXCEPT
                           !.providerInvoked = TRUE]
    /\ UNCHANGED <<rootExists, disk, plugin_cache, instance, bud_json, core, slot_lock, poisoned>>

\* The guest returns: its effects are in its store, the results are
\* converted, invoke returns and the guard is dropped.
DoThreadExit ==
  \E t \in Threads :
    LET f == threads[t]
        id == IF f.name \in DOMAIN plugins THEN plugins[f.name].store ELSE 0
    IN
    /\ f.pc = "in_guest"
    /\ stores' = IF id \in DOMAIN stores THEN [stores EXCEPT ![id] = f.guest] ELSE stores
    /\ mutex' = Unlock(mutex, t)
    /\ threads' = [threads EXCEPT ![t] = Idle]
    /\ ret' = [Ret("Provider.invoke", f.name, "Ok", <<>>) EXCEPT
                 !.val = f.val, !.providerInvoked = TRUE, !.guestCalled = TRUE]
    /\ UNCHANGED <<rootExists, disk, plugin_cache, instance, plugins, bud_json, core, slot_lock, poisoned>>

\* A thread calls Provider.load(data_root/name): it fails, or has the new
\* instance in a store of its own, not yet registered.
DoThreadLoad ==
  \E t \in Threads, name \in Names, engine \in {"ok", "compile_err"} :
    LET p == ProviderLoadPrepare(disk, instance, stores, Join(DataRoot, name), engine) IN
    /\ threads[t].pc = "idle"
    /\ IF p.ok
         THEN /\ threads' = [threads EXCEPT ![t] =
                               [Idle EXCEPT !.pc = "prepared", !.op = "load", !.name = name,
                                            !.store = p.plugin_instance.store]]
              /\ stores' = p.stores
              /\ ret' = ret
         ELSE /\ threads' = [threads EXCEPT ![t] = Idle]
              /\ stores' = stores
              /\ ret' = Ret("Provider.load", name, p.kind, p.msg)
    /\ UNCHANGED <<rootExists, disk, plugin_cache, instance, plugins, mutex, bud_json, core, slot_lock, poisoned>>

\* load takes the plugin-map lock, inserts its instance and returns.
DoThreadInsert ==
  \E t \in Threads :
    LET f == threads[t]
        i == ProviderLoadInsert(plugins, stores, f.name,
                                [store |-> f.store, module_name |-> f.name])
    IN
    /\ f.pc = "prepared"
    /\ CanLock(mutex)
    /\ plugins' = i.plugins
    /\ stores' = i.stores
    /\ threads' = [threads EXCEPT ![t] =
                     [Idle EXCEPT !.op = "load", !.name = f.name, !.store = f.store,
                                  !.ok = TRUE]]
    /\ ret' = Ret("Provider.load", f.name, "Ok", <<>>)
    /\ UNCHANGED <<rootExists, disk, plugin_cache, instance, mutex, bud_json, core, slot_lock, poisoned>>

NextConc ==
  DoThreadCall \/ DoThreadLock \/ DoThreadEnter \/ DoThreadExit \/ DoThreadLoad
    \/ DoThreadInsert

\* Two threads calling load and invoke on one provider.
SpecConc == InitConc /\ [][NextConc]_vars

\* ----------------------------------- callers, lock by lock and panicking

\* The shipped plugin installed, a second directory without main.wasm, and
\* a fresh provider shared by the threads.
InitLocks ==
  /\ rootExists = TRUE
  /\ disk = [n \in Names |->
               [exists |-> TRUE, json |-> JsonValid([name |-> n, version |-> Shipped]),
                wasm |-> n = "test-plugin", sub |-> EmptyTree]]
  /\ plugin_cache = [n \in Names |-> [name |-> n, version |-> Shipped]]
  /\ instance = 0
  /\ plugins = EmptyMap
  /\ stores = EmptyMap
  /\ ret = Ret("new", "", "Ok", <<>>)
  /\ threads = [t \in Threads |-> Idle]
  /\ mutex = <<>>
  /\ bud_json = FixtureFile
  /\ core = [logged |-> FALSE, steps |-> <<>>, handle |-> NoBudCore]
  /\ slot_lock = Unlocked
  /\ poisoned = NotPoisoned

\* A read guard that is handed out while a writer holds the lock.
MutCanReadAlways(l) == TRUE

\* RwLock::read returns once no writer holds the lock.
CanRead(l) == l.writer = {}

\* A write guard that is handed out while readers hold theirs.
MutCanWriteOverReaders(l) == l.writer = {}

\* RwLock::write returns once nobody holds the lock.
CanWrite(l) == l.writer = {} /\ l.readers = {}

\* lock().unwrap(): a poisoned lock is an error, and the caller panics.
MutLockOrRecoverUnwraps(poison) == [guard |-> ~poison]

\* lock().unwrap_or_else(|poisoned| poisoned.into_inner()): the guard,
\* poisoned or not.
LockOrRecover(poison) == [guard |-> TRUE]

\* with_plugins that takes the map out of the mutex for its closure.
MutWithPluginsTakesMap(plugs, name) ==
  [plugins |-> EmptyMap, contains |-> name \in DOMAIN plugs]

\* with_plugins(|plugins| plugins.contains_key(name)), the closure of
\* PluginManager::invoke, run on a shared reference to the map.
WithPlugins(plugs, name) ==
  [plugins |-> plugs, contains |-> name \in DOMAIN plugs]

\* What a thread holds.
HoldsMutex(t) == \E i \in 1..Len(mutex) : mutex[i] = t
ReleaseSlot(l, t) == [readers |-> l.readers \ {t}, writer |-> l.writer \ {t}]

\* init up to the new WasmInstance: Engine::new, the linker, WASI.
InitNew(t) ==
  \E engine \in {"ok", "fail"} :
    /\ threads[t].pc = "idle"
    /\ instance + Cardinality({u \in Threads : threads[u].pc \in {"init_built", "init_locked"}})
         < MaxInits
    /\ IF engine = "ok"
         THEN /\ threads' = [threads EXCEPT ![t] = [Idle EXCEPT !.pc = "init_built", !.op = "init"]]
              /\ ret' = ret
         ELSE /\ threads' = threads
              /\ ret' = Ret("Provider.init", "", "InitFailed", <<>>)
    /\ UNCHANGED <<rootExists, disk, plugin_cache, instance, plugins, stores, mutex, bud_json,
                   core, slot_lock, poisoned>>

\* init takes the write guard of the instance slot.
InitWrite(t) ==
  /\ threads[t].pc = "init_built"
  /\ CanWrite(slot_lock)
  /\ IF LockOrRecover(poisoned.instance).guard
       THEN /\ slot_lock' = [slot_lock EXCEPT !.writer = {t}]
            /\ threads' = [threads EXCEPT ![t].pc = "init_locked"]
            /\ ret' = ret
       ELSE /\ slot_lock' = slot_lock
            /\ threads' = [threads EXCEPT ![t] = Idle]
            /\ ret' = Ret("Provider.init", "", "PoisonError", <<>>)
  /\ UNCHANGED <<rootExists, disk, plugin_cache, instance, plugins, stores, mutex, bud_json,
                 core, poisoned>>

\* init stores the new instance, drops the guard and returns.
InitStore(t) ==
  LET o == ProviderInit(instance, plugins, stores, "ok") IN
  /\ threads[t].pc = "init_locked"
  /\ instance' = o.instance
  /\ plugins' = o.plugins
  /\ stores' = o.stores
  /\ slot_lock' = ReleaseSlot(slot_lock, t)
  /\ threads' = [threads EXCEPT ![t] = Idle]
  /\ ret' = Ret("Provider.init", "", "Ok", <<>>)
  /\ UNCHANGED <<rootExists, disk, plugin_cache, mutex, bud_json, core, poisoned>>

\* load up to the plugin name: the check for main.wasm.
LoadCheck(t) ==
  \E name \in Names :
    /\ threads[t].pc = "idle"
    /\ IF disk[name].exists /\ disk[name].wasm
         THEN /\ threads' = [threads EXCEPT ![t] =
                               [Idle EXCEPT !.pc = "load_checked", !.op = "load", !.name = name]]
              /\ ret' = ret
         ELSE /\ threads' = threads
              /\ ret' = Ret("Provider.load", name, "LoadFailed", <<>>)
    /\ UNCHANGED <<rootExists, disk, plugin_cache, instance, plugins, stores, mutex, bud_json,
                   core, slot_lock, poisoned>>

\* load takes a read guard of the instance slot and looks into the slot.
LoadRead(t) ==
  /\ threads[t].pc = "load_checked"
  /\ CanRead(slot_lock)
  /\ IF ~LockOrRecover(poisoned.instance).guard
       THEN /\ slot_lock' = slot_lock
            /\ threads' = [threads EXCEPT ![t] = Idle]
            /\ ret' = Ret("Provider.load", threads[t].name, "PoisonError", <<>>)
       ELSE IF instance = 0
         THEN /\ slot_lock' = slot_lock
              /\ threads' = [threads EXCEPT ![t] = Idle]
              /\ ret' = Ret("Provider.load", threads[t].name, "LoadFailed", <<>>)
         ELSE /\ slot_lock' = [slot_lock EXCEPT !.readers = @ \cup {t}]
              /\ threads' = [threads EXCEPT ![t].pc = "load_reading"]
              /\ ret' = ret
  /\ UNCHANGED <<rootExists, disk, plugin_cache, instance, plugins, stores, mutex, bud_json,
                 core, poisoned>>

\* Module::from_file(&instance.engine, ..): the engine is the one in the
\* slot now.
LoadCompile(t) ==
  \E engine \in {"ok", "compile_err"} :
    /\ threads[t].pc = "load_reading"
    /\ IF engine = "ok"
         THEN /\ threads' = [threads EXCEPT ![t].pc = "load_compiled", ![t].engine = instance]
              /\ slot_lock' = slot_lock
              /\ ret' = ret
         ELSE /\ threads' = [threads EXCEPT ![t] = Idle]
              /\ slot_lock' = ReleaseSlot(slot_lock, t)
              /\ ret' = Ret("Provider.load", threads[t].name, "LoadFailed", <<>>)
    /\ UNCHANGED <<rootExists, disk, plugin_cache, instance, plugins, stores, mutex, bud_json,
                   core, poisoned>>

\* Store::new(&instance.engine, plugin_state)
LoadStore(t) ==
  LET store == FreshStore(stores) IN
  /\ threads[t].pc = "load_compiled"
  /\ stores' = Put(stores, store, FreshGuest)
  /\ threads' = [threads EXCEPT ![t].pc = "load_stored", ![t].store = store,
                                ![t].store_engine = instance]
  /\ UNCHANGED <<rootExists, disk, plugin_cache, instance, plugins, ret, mutex, bud_json, core,
                 slot_lock, poisoned>>

\* instance.linker.instantiate(&mut store, &module): the linker is the one
\* in the slot now.
LoadInstantiate(t) ==
  \E engine \in {"ok", "instantiate_err"} :
    /\ threads[t].pc = "load_stored"
    /\ IF engine = "ok"
         THEN /\ threads' = [threads EXCEPT ![t].pc = "load_instantiated", ![t].linker = instance]
              /\ stores' = stores
              /\ slot_lock' = slot_lock
              /\ ret' = ret
         ELSE /\ threads' = [threads EXCEPT ![t] = Idle]
              /\ stores' = Drop(stores, {threads[t].store})
              /\ slot_lock' = ReleaseSlot(slot_lock, t)
              /\ ret' = Ret("Provider.load", threads[t].name, "LoadFailed", <<>>)
    /\ UNCHANGED <<rootExists, disk, plugin_cache, instance, plugins, mutex, bud_json, core,
                   poisoned>>

\* load takes the plugin-map lock, still holding its read guard, inserts
\* the instance, and drops both guards as it returns. The instance keeps
\* what it was made with: the Module of its engine, the Store of its
\* engine, the Instance its linker made.
LoadInsert(t) ==
  LET f == threads[t]
      i == ProviderLoadInsert(plugins, stores, f.name,
                              [store |-> f.store, module_name |-> f.name,
                               engine |-> f.engine, store_engine |-> f.store_engine,
                               linker |-> f.linker])
  IN
  /\ f.pc = "load_instantiated"
  /\ CanLock(mutex)
  /\ IF LockOrRecover(poisoned.plugins).guard
       THEN /\ plugins' = i.plugins
            /\ stores' = i.stores
            /\ ret' = Ret("Provider.load", f.name, "Ok", <<>>)
       ELSE /\ plugins' = plugins
            /\ stores' = Drop(stores, {f.store})
            /\ ret' = Ret("Provider.load", f.name, "PoisonError", <<>>)
  /\ slot_lock' = ReleaseSlot(slot_lock, t)
  /\ mutex' = Unlock(mutex, t)
  /\ threads' = [threads EXCEPT ![t] = Idle]
  /\ UNCHANGED <<rootExists, disk, plugin_cache, instance, bud_json, core, poisoned>>

\* PluginManager::invoke(name, "Sum", [1, 2]) of a manager built on the
\* shared provider, up to the call of with_plugins.
InvokeCall(t) ==
  \E name \in Names :
    /\ threads[t].pc = "idle"
    /\ threads' = [threads EXCEPT ![t] =
                     [Idle EXCEPT !.pc = "wp_wait", !.op = "invoke", !.name = name,
                                  !.function = "Sum", !.args = <<I32(1), I32(2)>>]]
    /\ UNCHANGED <<rootExists, disk, plugin_cache, instance, plugins, stores, ret, mutex,
                   bud_json, core, slot_lock, poisoned>>

\* with_plugins takes the plugin-map lock.
WithPluginsLock(t) ==
  /\ threads[t].pc = "wp_wait"
  /\ CanLock(mutex)
  /\ IF LockOrRecover(poisoned.plugins).guard
       THEN /\ mutex' = Append(mutex, t)
            /\ threads' = [threads EXCEPT ![t].pc = "wp_locked"]
            /\ ret' = ret
       ELSE /\ mutex' = mutex
            /\ threads' = [threads EXCEPT ![t] = Idle]
            /\ ret' = Ret("invoke", threads[t].name, "PoisonError", <<>>)
  /\ UNCHANGED <<rootExists, disk, plugin_cache, instance, plugins, stores, bud_json, core,
                 slot_lock, poisoned>>

\* with_plugins runs the closure and drops the guard; the manager returns
\* its LoadError or goes on to Provider.invoke.
WithPluginsRun(t) ==
  LET w == WithPlugins(plugins, threads[t].name) IN
  /\ threads[t].pc = "wp_locked"
  /\ plugins' = w.plugins
  /\ mutex' = Unlock(mutex, t)
  /\ IF w.contains
       THEN /\ threads' = [threads EXCEPT ![t].pc = "invoke_wait", ![t].checked = TRUE]
            /\ ret' = ret
       ELSE /\ threads' = [threads EXCEPT ![t] = Idle]
            /\ ret' = Ret("invoke", threads[t].name, "LoadError", <<>>)
  /\ UNCHANGED <<rootExists, disk, plugin_cache, instance, stores, bud_json, core, slot_lock,
                 poisoned>>

\* Provider.invoke takes the plugin-map lock.
InvokeLock(t) ==
  /\ threads[t].pc = "invoke_wait"
  /\ CanLock(mutex)
  /\ IF LockOrRecover(poisoned.plugins).guard
       THEN /\ mutex' = Append(mutex, t)
            /\ threads' = [threads EXCEPT ![t].pc = "invoke_locked"]
            /\ ret' = ret
       ELSE /\ mutex' = mutex
            /\ threads' = [threads EXCEPT ![t] = Idle]
            /\ ret' = Ret("invoke", threads[t].name, "PoisonError", <<>>)
  /\ UNCHANGED <<rootExists, disk, plugin_cache, instance, plugins, stores, bud_json, core,
                 slot_lock, poisoned>>

\* Provider.invoke from the lookup to its return, the guest call included.
InvokeRun(t) ==
  LET f == threads[t]
      o == ProviderInvoke(plugins, stores, f.name, f.function, f.args)
  IN
  /\ f.pc = "invoke_locked"
  /\ plugins' = o.plugins
  /\ stores' = o.stores
  /\ mutex' = Unlock(mutex, t)
  /\ threads' = [threads EXCEPT ![t] = Idle]
  /\ ret' = [Ret("invoke", f.name, IF o.ok THEN "Ok" ELSE "InvokeError", <<>>) EXCEPT
               !.val = o.val, !.providerError = o.kind, !.providerInvoked = TRUE,
               !.guestCalled = o.guestCalled]
  /\ UNCHANGED <<rootExists, disk, plugin_cache, instance, bud_json, core, slot_lock, poisoned>>

\* A thread panics where it holds a guard: unwinding drops the guard and what the
\* frame owns; a Mutex guard and an RwLock write guard poison their lock, a
\* read guard does not.
Panic(t) ==
  LET f == threads[t] IN
  /\ f.pc \in {"init_locked", "load_reading", "load_compiled", "load_stored",
              "load_instantiated", "wp_locked", "invoke_locked"}
  /\ poisoned' = [plugins |-> poisoned.plugins \/ HoldsMutex(t),
                  instance |-> poisoned.instance \/ t \in slot_lock.writer]
  /\ mutex' = Unlock(mutex, t)
  /\ slot_lock' = ReleaseSlot(slot_lock, t)
  /\ stores' = IF f.pc \in {"load_stored", "load_instantiated"}
                 THEN Drop(stores, {f.store}) ELSE stores
  /\ threads' = [threads EXCEPT ![t] = Idle]
  /\ ret' = Ret(f.op, f.name, "Panic", <<>>)
  /\ UNCHANGED <<rootExists, disk, plugin_cache, instance, plugins, bud_json, core>>

NextLocks ==
  \E t \in Threads :
    \/ InitNew(t) \/ InitWrite(t) \/ InitStore(t)
    \/ LoadCheck(t) \/ LoadRead(t) \/ LoadCompile(t) \/ LoadStore(t) \/ LoadInstantiate(t)
    \/ LoadInsert(t)
    \/ InvokeCall(t) \/ WithPluginsLock(t) \/ WithPluginsRun(t) \/ InvokeLock(t)
    \/ InvokeRun(t)
    \/ Panic(t)

\* Threads calling init, load and the manager's invoke on one provider.
SpecLocks == InitLocks /\ [][NextLocks]_vars

\* The steps in which a call takes a lock, and those in which it runs on.
Acquire(t) ==
  InitWrite(t) \/ LoadRead(t) \/ LoadInsert(t) \/ WithPluginsLock(t) \/ InvokeLock(t)
Advance(t) ==
  \/ InitStore(t) \/ LoadCompile(t) \/ LoadStore(t) \/ LoadInstantiate(t)
  \/ WithPluginsRun(t) \/ InvokeRun(t)

\* The calls without the panics.
NextLocksFair ==
  \E t \in Threads :
    \/ InitNew(t) \/ InitWrite(t) \/ InitStore(t)
    \/ LoadCheck(t) \/ LoadRead(t) \/ LoadCompile(t) \/ LoadStore(t) \/ LoadInstantiate(t)
    \/ LoadInsert(t)
    \/ InvokeCall(t) \/ WithPluginsLock(t) \/ WithPluginsRun(t) \/ InvokeLock(t)
    \/ InvokeRun(t)

\* The same threads, none of which panics, under a scheduler that runs
\* every thread that can run, with guest calls that return, and locks that
\* a waiting thread gets when they are free again and again.
SpecLocksFair ==
  /\ InitLocks
  /\ [][NextLocksFair]_vars
  /\ \A t \in Threads : WF_vars(Advance(t)) /\ SF_vars(Acquire(t))

\* The manager with a provider nobody initialised (the install, get and
\* get_all tests): load and invoke run, and stop in the provider.
NextRoot == DoInstall \/ DoGetAll \/ DoGet \/ DoLoad \/ DoInvoke

SpecRoot == InitRoot /\ [][NextRoot]_vars


\* ================================================================= claims

GetOk(name) == Get(disk, plugin_cache, name).res.kind = "Ok"
Loaded(name) == name \in DOMAIN plugins
Calls == Functions \X ArgLists

\* ---------------------------------------------------------------------
\* C1: invoke returns a value only for a plugin registered in the
\* provider's plugin map; for a plugin that is installed (get succeeds) but
\* not loaded, invoke returns LoadError with a message containing "load the
\* plugin first", Provider.invoke is not called and no store changes.
C1_InvokeBeforeLoad ==
  /\ ret.op = "invoke" /\ ret.kind = "Ok" => Loaded(ret.name)
  /\ ret.op = "invoke" /\ ~Loaded(ret.name) => ret.kind = "LoadError" /\ ~ret.providerInvoked
  /\ \A name \in Names, call \in Calls :
       GetOk(name) /\ ~Loaded(name) =>
         LET o == Invoke(disk, plugin_cache, plugins, stores, name, call[1], call[2]) IN
         /\ o.res.kind = "LoadError"
         /\ Contains(o.res.msg, "load the plugin first")
         /\ ~o.res.providerInvoked /\ ~o.res.guestCalled
         /\ o.stores = stores

\* An installed plugin that is not loaded was invoked, and refused.
C1_Witness ==
  /\ ret.op = "invoke" /\ ret.kind = "LoadError"
  /\ Contains(ret.msg, "load the plugin first")
  /\ ret.name \in DOMAIN plugin_cache /\ disk[ret.name].exists
  /\ ~Loaded(ret.name)

\* ---------------------------------------------------------------------
\* C2: a successful load(n) registers the plugin under exactly n, the final
\* component of data_root/n, so that invoke(n, "Sum", [I32(1), I32(2)])
\* passes the loaded check, reaches the guest and returns I32(3).
C2_LoadThenInvoke ==
  /\ ret.op = "load" /\ ret.kind = "Ok" =>
       Loaded(ret.name) /\ plugins[ret.name].module_name = ret.name
  /\ \A name \in DOMAIN plugins :
       LET o == Invoke(disk, plugin_cache, plugins, stores, name, "Sum", <<I32(1), I32(2)>>) IN
       /\ o.res.kind = "Ok" /\ o.res.val = I32(3)
       /\ o.res.providerInvoked /\ o.res.guestCalled

\* Sum(1, 2) was invoked on a plugin that was installed, then loaded.
C2_Witness ==
  /\ ret.op = "invoke" /\ ret.kind = "Ok" /\ ret.val = I32(3)
  /\ Loaded(ret.name) /\ instance > 0
  /\ ret.name \in DOMAIN plugin_cache /\ disk[ret.name].wasm

\* ---------------------------------------------------------------------
\* C3: when data_root/<manifest.name> already exists as a directory,
\* install fails with InstallError ("already installed") and changes neither
\* the cache nor the disk; an install directly after a successful install of
\* the same manifest name always fails this way.
C3_AlreadyInstalledNow ==
  /\ ret.op = "install" /\ ret.kind = "Ok" => disk[ret.name].exists
  /\ \A src \in Dirs, io \in IoOutcomes :
       \A partial \in PartialCopies(src) :
         LET cfg == LoadPluginConfig(src)
             o == Install(rootExists, disk, plugin_cache, src, io, partial)
         IN src.exists /\ cfg.ok /\ disk[cfg.config.name].exists =>
              /\ o.res.kind = "InstallError"
              /\ Contains(o.res.msg, " is already installed")
              /\ o.cache = plugin_cache /\ o.disk = disk /\ o.root = rootExists

C3_RefusedStep ==
  /\ ret'.op = "install" /\ ret'.kind = "InstallError" =>
       plugin_cache' = plugin_cache /\ disk' = disk /\ rootExists' = rootExists
  /\ ret.op = "install" /\ ret.kind = "Ok" /\ ret'.op = "install" /\ ret'.name = ret.name =>
       /\ ret'.kind = "InstallError" /\ Contains(ret'.msg, " is already installed")
       /\ plugin_cache' = plugin_cache /\ disk' = disk

C3_InstallIdempotenceBlocker == []C3_AlreadyInstalledNow /\ [][C3_RefusedStep]_vars

\* An install was refused because the plugin it names is installed.
C3_Witness ==
  /\ ret.op = "install" /\ ret.kind = "InstallError"
  /\ Contains(ret.msg, " is already installed")
  /\ disk[ret.name].exists /\ ret.name \in DOMAIN plugin_cache

OnDisk(name) ==
  disk[name].exists /\ disk[name].json.st = "valid" /\ disk[name].json.m.name = name
ValidDirs == {n \in Subdirs(disk) : LoadPluginConfig(disk[n]).ok}
Scan(order) == LoadAllPlugins(rootExists, disk, order, "ok")
Returned(infos) == {FileName(i.path) : i \in infos}

\* ---------------------------------------------------------------------
\* C4: name invariant. get(name) succeeds if and only if the manifest
\* stored in data_root/<name>/plugin.json is valid and has name == name, in
\* every state reached by install, get_all, get and load (a get answered
\* from a cache that get_all filled included).
C4_NameInvariant ==
  \A name \in Names : GetOk(name) <=> OnDisk(name)

\* ---------------------------------------------------------------------
\* C5: every key k of the plugin cache corresponds to an existing directory
\* data_root/<k>.
C5_CacheEntriesExist ==
  \A k \in DOMAIN plugin_cache : disk[k].exists

\* ---------------------------------------------------------------------
\* C6: lenient discovery. When get_all has scanned (read_dir answering) a
\* data root holding N >= 1 subdirectories with a valid plugin.json, beside
\* any number with a missing or invalid one, it returned Ok with exactly N
\* entries and left the cache with exactly N keys.
C6_LenientDiscovery ==
  ret.op = "get_all" /\ ~Contains(ret.msg, "IoError") /\ Cardinality(ValidDirs) >= 1 =>
    /\ ret.kind = "Ok"
    /\ Cardinality(ret.infos) = Cardinality(ValidDirs)
    /\ Cardinality(DOMAIN plugin_cache) = Cardinality(ValidDirs)

\* ---------------------------------------------------------------------
\* C7: get_all returns Ok or LoadError and nothing else. It returns
\* LoadError when the data root does not exist, and when the root exists, no
\* manifest loaded and at least one subdirectory failed. On every error the
\* cache is what it was before the call. A root without subdirectories is
\* Ok with an empty list.
C7_GetAllNow ==
  /\ ret.op = "get_all" => ret.kind \in {"Ok", "LoadError"}
  /\ \A order \in ReadDirOrders(disk), io \in {"ok", "read_dir_fail"} :
       LET o == GetAll(rootExists, disk, plugin_cache, order, io) IN
       /\ o.res.kind \in {"Ok", "LoadError"}
       /\ ~rootExists => o.res.kind = "LoadError"
       /\ rootExists /\ ValidDirs = {} /\ Subdirs(disk) # {} => o.res.kind = "LoadError"
       /\ o.res.kind = "LoadError" => o.cache = plugin_cache
       /\ rootExists /\ Subdirs(disk) = {} /\ io = "ok" =>
            o.res.kind = "Ok" /\ o.res.infos = {} /\ o.cache = EmptyMap

C7_ErrorStep ==
  ret'.op = "get_all" /\ ret'.kind # "Ok" =>
    ret'.kind = "LoadError" /\ plugin_cache' = plugin_cache

C7_GetAllErrors == []C7_GetAllNow /\ [][C7_ErrorStep]_vars

\* get_all failed on a manager whose cache holds entries, and they are
\* still there.
C7_Witness ==
  /\ ret.op = "get_all" /\ ret.kind = "LoadError"
  /\ rootExists /\ plugin_cache # EmptyMap

\* ---------------------------------------------------------------------
\* C8: a successful get_all replaces the cache wholesale: the cache is then
\* exactly the mapping that scan loaded, which is also what it returned, and
\* nothing of what the cache held before; and with the disk as get_all saw
\* it, get(name) succeeds only for names that get_all returned.
C8_CacheIsScanNow ==
  /\ ret.op = "get_all" /\ ret.kind = "Ok" =>
       /\ \E order \in ReadDirOrders(disk) : plugin_cache = Scan(order).plugins
       /\ DOMAIN plugin_cache = Returned(ret.infos)
       /\ \A i \in ret.infos : plugin_cache[FileName(i.path)] = i.config
  /\ \A order \in ReadDirOrders(disk) :
       LET o == GetAll(rootExists, disk, plugin_cache, order, "ok") IN
       o.res.kind = "Ok" =>
         /\ o.cache = Scan(order).plugins
         /\ \A name \in Names :
              Get(disk, o.cache, name).res.kind = "Ok" => name \in Returned(o.res.infos)

C8_GetAfterGetAll ==
  ret.op = "get_all" /\ ret.kind = "Ok" /\ ret'.op = "get" /\ ret'.kind = "Ok" =>
    ret'.name \in Returned(ret.infos)

C8_GetAllReplacesCache == []C8_CacheIsScanNow /\ [][C8_GetAfterGetAll]_vars

\* get_all succeeded on a data root with a directory it did not return a
\* plugin for, and get fails for that name.
C8_Witness ==
  /\ ret.op = "get_all" /\ ret.kind = "Ok" /\ plugin_cache # EmptyMap
  /\ \E name \in Names : disk[name].exists /\ name \notin Returned(ret.infos) /\ ~GetOk(name)

\* ---------------------------------------------------------------------
\* C9: get(name) is read-through. On a cache hit it returns the cached
\* manifest without reading disk and leaves the cache alone; on a miss it
\* loads data_root/<name>/plugin.json, requires manifest.name == name,
\* inserts the manifest under name and returns it; when the load or the
\* name check fails it returns LoadError and the cache is unchanged.
C9_GetNow ==
  \A name \in Names :
    LET o == Get(disk, plugin_cache, name) IN
    IF name \in DOMAIN plugin_cache
      THEN /\ o.res.kind = "Ok" /\ o.res.config = plugin_cache[name]
           /\ ~o.res.readDisk /\ o.cache = plugin_cache
           /\ o = Get([n \in Names |-> NoDir], plugin_cache, name)
    ELSE IF OnDisk(name)
      THEN /\ o.res.kind = "Ok" /\ o.res.config = disk[name].json.m /\ o.res.readDisk
           /\ o.cache = Put(plugin_cache, name, disk[name].json.m)
    ELSE o.res.kind = "LoadError" /\ o.cache = plugin_cache

C9_GetStep ==
  ret'.op = "get" =>
    /\ ret'.kind = "Ok" => ret'.name \in DOMAIN plugin_cache' /\
                            plugin_cache'[ret'.name] = ret'.config
    /\ ret'.kind # "Ok" \/ ~ret'.readDisk => plugin_cache' = plugin_cache
    /\ \A k \in DOMAIN plugin_cache : k \in DOMAIN plugin_cache' /\
                                       plugin_cache'[k] = plugin_cache[k]

C9_GetReadThrough == []C9_GetNow /\ [][C9_GetStep]_vars

\* A get missed the cache, loaded the manifest from disk and cached it.
C9_Witness ==
  /\ ret.op = "get" /\ ret.kind = "Ok" /\ ret.readDisk
  /\ ret.name \in DOMAIN plugin_cache /\ plugin_cache[ret.name] = ret.config
  /\ ret.config.name = ret.name

\* ---------------------------------------------------------------------
\* C10: isolation. Every registered plugin instance owns a live store, no
\* two entries of the plugin map share one, and an invoke on plugin P leaves
\* the plugin map and the store of every other loaded plugin Q unchanged.
C10_OwnStoreNow ==
  /\ \A p \in DOMAIN plugins : plugins[p].store \in DOMAIN stores
  /\ \A p, q \in DOMAIN plugins : p # q => plugins[p].store # plugins[q].store
  /\ \A p \in DOMAIN plugins, call \in Calls :
       LET o == Invoke(disk, plugin_cache, plugins, stores, p, call[1], call[2]) IN
       \A q \in DOMAIN plugins \ {p} :
         /\ plugins[q].store \in DOMAIN o.stores
         /\ o.stores[plugins[q].store] = stores[plugins[q].store]

C10_InvokeStep ==
  ret'.op = "invoke" =>
    /\ plugins' = plugins
    /\ \A q \in DOMAIN plugins \ {ret'.name} :
         stores'[plugins[q].store] = stores[plugins[q].store]

C10_StoreIsolation == []C10_OwnStoreNow /\ [][C10_InvokeStep]_vars

\* Two plugins are loaded; the one invoked has counted in its store, the
\* other's store is as it was instantiated.
C10_Witness ==
  /\ ret.op = "invoke" /\ ret.kind = "Ok" /\ Cardinality(DOMAIN plugins) = 2
  /\ stores[plugins[ret.name].store].counter = 1
  /\ \A q \in DOMAIN plugins \ {ret.name} : stores[plugins[q].store] = FreshGuest

\* ---------------------------------------------------------------------
\* C13: marshalling round trip. For every numeric value v (I32, I64, F32,
\* F64), val_to_provider_value(provider_value_to_val(v)) is Ok and yields v
\* bit for bit; F32 and F64 travel as their IEEE-754 bit patterns (a u32, a
\* u64), so a NaN comes back with its sign, quiet bit and payload.
C13_MarshalRoundTrip ==
  /\ \A v \in NumericValues :
       LET there == ProviderValueToVal(v)
           back == ValToProviderValue(there.val)
       IN /\ there.ok /\ there.val.t = v.t
          /\ back.ok /\ back.value = v
          /\ v.t = "F32" => /\ Len(there.val.bits) = 2
                            /\ \A i \in 1..2 : there.val.bits[i] \in 0..65535
                            /\ there.val.bits[1] \div 32768 = v.f.sign
          /\ v.t = "F64" => /\ Len(there.val.bits) = 4
                            /\ \A i \in 1..4 : there.val.bits[i] \in 0..65535
                            /\ there.val.bits[1] \div 32768 = v.f.sign
  /\ ret.op = "val_to_provider_value" /\ ret.kind = "Ok" =>
       ProviderValueToVal(ret.val).val = ret.wasm

\* A negative quiet F32 NaN with a payload went to the guest side and came
\* back.
C13_Witness ==
  /\ ret.op = "val_to_provider_value" /\ ret.kind = "Ok"
  /\ ret.val = F32([sign |-> 1, exp |-> 255, frac |-> <<64, 1>>])
  /\ ret.wasm = ValBits("F32", <<65472, 1>>)

ProviderCall(p, call) == ProviderInvoke(plugins, stores, p, call[1], call[2])
NonNumeric(args) == {i \in 1..Len(args) : args[i].t \notin NumericTypes}
FirstNonNumeric(args) == CHOOSE i \in NonNumeric(args) : \A j \in NonNumeric(args) : i <= j

\* ---------------------------------------------------------------------
\* C14 as stated: for every loaded plugin and every argument list with a
\* non-numeric value, Provider.invoke fails with InvocationFailed before the
\* guest is called, guest state and plugin map unchanged; and whenever the
\* list holds a Bool, the message names Bool.
C14_NonNumericArgsAsStated ==
  \A p \in DOMAIN plugins, call \in Calls :
    NonNumeric(call[2]) # {} =>
      LET o == ProviderCall(p, call) IN
      /\ ~o.ok /\ o.kind = "InvocationFailed" /\ ~o.guestCalled
      /\ o.stores = stores /\ o.plugins = plugins
      /\ (\E i \in 1..Len(call[2]) : call[2][i].t = "Bool") => Contains(o.msg, "Bool")

\* C14, amended: as above, but the message names Bool when the function is
\* exported and the first non-numeric argument is a Bool (the first argument
\* that cannot be marshalled decides the message, and a missing function is
\* reported before any argument is looked at).
C14_NonNumericArgs ==
  \A p \in DOMAIN plugins, call \in Calls :
    NonNumeric(call[2]) # {} =>
      LET o == ProviderCall(p, call)
          m == Invoke(disk, plugin_cache, plugins, stores, p, call[1], call[2])
      IN
      /\ ~o.ok /\ o.kind = "InvocationFailed" /\ ~o.guestCalled
      /\ o.stores = stores /\ o.plugins = plugins
      /\ call[1] \in GuestExports /\ call[2][FirstNonNumeric(call[2])].t = "Bool" =>
           Contains(o.msg, "Bool")
      /\ m.res.kind = "InvokeError" /\ ~m.res.guestCalled
      /\ m.stores = stores /\ m.plugins = plugins

\* Sum was invoked on a loaded plugin with a Bool argument and refused with
\* a message naming Bool; the plugin is still registered.
C14_Witness ==
  /\ ret.op = "invoke" /\ ret.kind = "InvokeError" /\ ret.providerError = "InvocationFailed"
  /\ Contains(ret.msg, "Bool") /\ ~ret.guestCalled
  /\ Loaded(ret.name) /\ stores[plugins[ret.name].store] = FreshGuest

\* ---------------------------------------------------------------------
\* C15: signature pre-check. For a function that declares a result type
\* other than I32, I64, F32, F64 (Vec returns a V128), invoke returns
\* InvocationFailed without reaching func.call: the guest is not entered
\* and its side-effect counter is what it was.
C15_SignaturePreCheck ==
  /\ \A p \in DOMAIN plugins, call \in Calls :
       (\E i \in 1..Len(GuestResults(call[1])) : GuestResults(call[1])[i] = "V128") =>
         LET o == ProviderCall(p, call) IN
         /\ ~o.ok /\ o.kind = "InvocationFailed" /\ ~o.guestCalled
         /\ o.stores = stores
         /\ o.stores[plugins[p].store].counter = stores[plugins[p].store].counter
  /\ ret.op = "invoke" /\ Contains(ret.msg, "' returns unsupported type") =>
       ret.kind = "InvokeError" /\ ~ret.guestCalled

\* Vec was invoked on a loaded plugin and refused on its signature; the
\* guest's counter has not moved.
C15_Witness ==
  /\ ret.op = "invoke" /\ ret.kind = "InvokeError"
  /\ Contains(ret.msg, "' returns unsupported type") /\ Contains(ret.msg, "Vec")
  /\ Loaded(ret.name) /\ stores[plugins[ret.name].store].counter = 0

\* ---------------------------------------------------------------------
\* C16: result shape. After a successful guest call invoke returns Null for
\* a function declaring no result, the marshalled value for one result and
\* an Array of the marshalled values in declaration order for several
\* (Pair() yields Array([I32(7), I64(99)])); the result buffer has the
\* declared arity.
C16_ResultShape ==
  \A p \in DOMAIN plugins, call \in Calls :
    LET o == ProviderCall(p, call)
        declared == GuestResults(call[1])
        marshalled == [i \in 1..Len(o.results) |-> ValToProviderValue(o.results[i]).value]
    IN o.ok =>
         /\ o.guestCalled
         /\ Len(o.results) = Len(declared)
         /\ \A i \in 1..Len(declared) : o.results[i].t = declared[i]
         /\ Len(declared) = 0 => o.val = Null
         /\ Len(declared) = 1 => o.val = marshalled[1]
         /\ Len(declared) > 1 => o.val = Array(marshalled)
         /\ call[1] = "Pair" => o.val = Array(<<I32(7), I64(99)>>)
         /\ call[1] = "Bump" => o.val = Null

\* Pair was invoked on a loaded plugin and returned the Array of its two
\* results.
C16_Witness ==
  /\ ret.op = "invoke" /\ ret.kind = "Ok" /\ ret.guestCalled
  /\ ret.val = Array(<<I32(7), I64(99)>>) /\ Loaded(ret.name)

\* ---------------------------------------------------------------------
\* C17: for a loaded plugin p and a function f that p does not export,
\* invoke fails with InvocationFailed("Function '<f>' not found in plugin
\* '<p>'"), the plugin map is unchanged and a later invoke of an exported
\* function of p succeeds; no failing invoke removes a plugin from the map.
C17_MissingFunction ==
  /\ \A p \in DOMAIN plugins, call \in Calls :
       LET o == ProviderCall(p, call)
           m == Invoke(disk, plugin_cache, plugins, stores, p, call[1], call[2])
       IN
       /\ ~o.ok => o.plugins = plugins
       /\ m.res.kind # "Ok" => m.plugins = plugins
       /\ call[1] \notin GuestExports =>
            /\ ~o.ok /\ o.kind = "InvocationFailed"
            /\ o.msg = <<"Function '", call[1], "' not found in plugin '", p, "'">>
            /\ o.stores = stores
            /\ ProviderInvoke(o.plugins, o.stores, p, "Sum", <<I32(1), I32(2)>>).ok
            /\ Invoke(disk, m.cache, m.plugins, m.stores, p, "Sum", <<I32(1), I32(2)>>).res.kind = "Ok"
  /\ ret.op = "invoke" /\ ret.providerInvoked => Loaded(ret.name)

\* A function the plugin does not export was invoked; the plugin is still
\* loaded.
C17_Witness ==
  /\ ret.op = "invoke" /\ ret.kind = "InvokeError"
  /\ Contains(ret.msg, "Absent") /\ Contains(ret.msg, "' not found in plugin '")
  /\ Loaded(ret.name)

\* ---------------------------------------------------------------------
\* C18: init is idempotent. A successful init stores the instance, so a
\* later load does not fail for want of one; a second init returns an
\* instance equivalent to the first (same configuration, WASI linked, its
\* own engine); the plugins loaded before it stay registered, keep their
\* stores and can be invoked.
C18_InitIdempotent ==
  /\ ret.op = "init" /\ ret.kind = "Ok" => instance > 0
  /\ instance > 0 =>
       \A name \in Names, engine \in EngineOutcomes :
         ~Contains(ProviderLoad(disk, instance, plugins, stores, Join(DataRoot, name), engine).msg,
                   "Provider not initialized. Call init() first.")
  /\ LET o == ProviderInit(instance, plugins, stores, "ok") IN
     /\ o.ok /\ o.instance > 0
     /\ o.new_instance.config = WasmInstance(1).config
     /\ o.new_instance.wasi = WasmInstance(1).wasi
     /\ o.plugins = plugins /\ o.stores = stores
     /\ \A p \in DOMAIN plugins :
          ProviderInvoke(o.plugins, o.stores, p, "Sum", <<I32(1), I32(2)>>).ok
  /\ LET o == ProviderInit(instance, plugins, stores, "fail") IN
     ~o.ok /\ o.instance = instance /\ o.plugins = plugins /\ o.stores = stores

\* A second init succeeded on a provider that had a plugin loaded, and the
\* plugin is registered with its store.
C18_Witness ==
  /\ ret.op = "init" /\ ret.kind = "Ok" /\ instance = 2
  /\ \E p \in DOMAIN plugins : plugins[p].store \in DOMAIN stores

\* ---------------------------------------------------------------------
\* C19: unload tears down the plugin instances: it returns Ok, and after
\* it no plugin is registered and no store is held, so that invoke fails
\* with LoadError.
C19_UnloadTearsDown ==
  ret.op = "unload" =>
    /\ ret.kind = "Ok"
    /\ plugins = EmptyMap /\ stores = EmptyMap
    /\ \A name \in Names :
         Invoke(disk, plugin_cache, plugins, stores, name, "Sum", <<I32(1), I32(2)>>).res.kind
           = "LoadError"

\* ---------------------------------------------------------------------
\* C20: every Provider error crossing the Manager is wrapped as LoadError
\* (from load) or InvokeError (from invoke), and the wrapped message names
\* the plugin.
C20_ErrorWrapping ==
  ret.providerError # "" =>
    /\ ret.op = "load" => ret.kind = "LoadError"
    /\ ret.op = "invoke" => ret.kind = "InvokeError"
    /\ Contains(ret.msg, ret.name)

Holding == {t \in Threads : threads[t].pc \in {"locked", "in_guest"}}
InGuest == {t \in Threads : threads[t].pc = "in_guest"}
Holders == {mutex[i] : i \in 1..Len(mutex)}

\* ---------------------------------------------------------------------
\* C11: under any interleaving of concurrent callers, Provider.invoke
\* holds the plugin-map mutex from the plugin lookup until the result is
\* marshalled: at most one thread holds it, so at most one guest function
\* executes at any time, across all plugins; the store a guest works on is
\* not changed by anyone else while it runs, and the guests' effects reach
\* the stores in the order in which the invocations acquired the lock.
C11_MutexNow ==
  /\ Len(mutex) <= 1
  /\ Holders = Holding
  /\ Cardinality(InGuest) <= 1
  /\ \A t \in InGuest :
       LET f == threads[t] IN
       /\ f.name \in DOMAIN plugins /\ plugins[f.name].store \in DOMAIN stores
       /\ ProviderInvoke(plugins, stores, f.name, f.function, f.args).stores[plugins[f.name].store]
            = f.guest

C11_ExitInLockOrder ==
  \A t \in Threads :
    threads[t].pc = "in_guest" /\ threads'[t].pc = "idle" =>
      /\ mutex # <<>> /\ Head(mutex) = t /\ mutex' = Tail(mutex)
      /\ plugins' = plugins
      /\ stores' = [stores EXCEPT ![plugins[threads[t].name].store] = threads[t].guest]

C12_ReplaceNow ==
  /\ \A name \in DOMAIN plugins :
       LET l == ProviderLoad(disk, instance, plugins, stores, Join(DataRoot, name), "ok") IN
       l.ok =>
         /\ DOMAIN l.plugins = DOMAIN plugins
         /\ \A q \in DOMAIN plugins \ {name} : l.plugins[q] = plugins[q]
         /\ l.plugins[name].module_name = name
         /\ l.plugins[name].store # plugins[name].store
         /\ l.plugins[name].store \notin DOMAIN stores
         /\ plugins[name].store \notin DOMAIN l.stores
         /\ l.stores[l.plugins[name].store] = FreshGuest
         /\ DOMAIN l.stores = {l.plugins[q].store : q \in DOMAIN l.plugins}
                                \cup {threads[t].store : t \in {u \in Threads : threads[u].pc = "prepared"}}
  /\ DOMAIN stores = {plugins[q].store : q \in DOMAIN plugins}
                       \cup {threads[t].store : t \in {u \in Threads : threads[u].pc = "prepared"}}
  /\ \A p, q \in DOMAIN plugins : p # q => plugins[p].store # plugins[q].store
  /\ \A t \in Threads : threads[t].pc = "prepared" =>
       /\ \A q \in DOMAIN plugins : plugins[q].store # threads[t].store
       /\ \A u \in Threads \ {t} : threads[u].pc = "prepared" => threads[u].store # threads[t].store

C12_LaterInsertionWins ==
  \A t \in Threads :
    threads[t].pc = "prepared" /\ threads'[t].pc = "idle" =>
      /\ DOMAIN plugins' = DOMAIN plugins \cup {threads[t].name}
      /\ plugins'[threads[t].name] = [store |-> threads[t].store, module_name |-> threads[t].name]
      /\ threads[t].name \in DOMAIN plugins => plugins[threads[t].name].store \notin DOMAIN stores'

C12_ReloadReplaces == []C12_ReplaceNow /\ [][C12_LaterInsertionWins]_vars

\* Two loads of one name have both succeeded: the map holds the instance
\* of the one that returned last, and the store of the other is gone.
C12_Witness ==
  \E t, u \in Threads :
    /\ t # u /\ threads[t].op = "load" /\ threads[u].op = "load"
    /\ threads[t].pc = "idle" /\ threads[u].pc = "idle" /\ threads[t].ok /\ threads[u].ok
    /\ threads[t].name = threads[u].name /\ threads[t].store # threads[u].store
    /\ ret.op = "Provider.load" /\ ret.kind = "Ok" /\ ret.name = threads[t].name
    /\ plugins[threads[t].name].store = threads[t].store
    /\ threads[u].store \notin DOMAIN stores

BuildOrder == <<"init_logger", "load_config", "Provider.init", "PluginManager::new">>

\* ---------------------------------------------------------------------
\* C21: BudCoreBuilder.build runs its steps in the order logging, load of
\* the root config, Provider.init, construction of the Plugin Manager, and
\* the first failing step aborts the rest with the matching error: a config
\* failure gives Config and Provider.init is not called; an init failure
\* gives ProviderInitFailed and no manager is built; a manager failure gives
\* Plugin. On success the manager and the returned handle share the same
\* provider and the same config.
C21_BuildOrder ==
  \A cwd \in {"ok", "fail"}, engine \in {"ok", "fail"}, home \in BOOLEAN :
    LET b == Build(core.logged, cwd, bud_json, instance, plugins, stores, engine, home)
        c == LoadConfig(cwd, bud_json)
        i == ProviderInit(instance, plugins, stores, engine)
    IN
    /\ b.logged
    /\ \E n \in 1..Len(BuildOrder) : b.steps = SubSeq(BuildOrder, 1, n)
    /\ ~c.ok =>
         /\ ~b.ok /\ b.kind = "Config" /\ b.err = c.err
         /\ b.steps = SubSeq(BuildOrder, 1, 2)
         /\ b.instance = instance /\ b.plugins = plugins /\ b.stores = stores
         /\ ~b.core.built
    /\ c.ok /\ ~i.ok =>
         /\ ~b.ok /\ b.kind = "ProviderInitFailed" /\ b.err = i.kind
         /\ b.steps = SubSeq(BuildOrder, 1, 3)
         /\ ~b.core.built /\ ~b.core.plugin_manager.built
    /\ c.ok /\ i.ok /\ ~home =>
         /\ ~b.ok /\ b.kind = "Plugin" /\ b.err = "ProjectDirsError"
         /\ b.steps = BuildOrder
         /\ b.instance = i.instance
         /\ ~b.core.built
    /\ c.ok /\ i.ok /\ home =>
         /\ b.ok /\ b.steps = BuildOrder /\ b.core.built
         /\ b.instance = i.instance
         /\ b.core.config.data = c.config /\ b.core.package_name = c.config.name
         /\ b.core.provider_instance = i.new_instance
         /\ b.core.plugin_manager.built
         /\ b.core.plugin_manager.provider = b.core.provider
         /\ b.core.plugin_manager.config = b.core.config

\* A build went through all four steps and returned its handle.
C21_Witness ==
  /\ ret.op = "build" /\ ret.kind = "Ok"
  /\ core.steps = BuildOrder /\ core.handle.built
  /\ instance # 0

\* ---------------------------------------------------------------------
\* C22: load_config reads bud.json from the working directory. A file
\* holding the required string fields name, version and description yields
\* a ConfigData with exactly those values; a missing file yields
\* FileNotFound, text that is not JSON yields ParseError, and a JSON value
\* failing the schema yields ValidationError, in that order of checks.
C22_LoadConfigNow ==
  LET r == LoadConfig("ok", bud_json)
      o == bud_json.object
      isObject == bud_json.st = "json_object"
      conforms == /\ isObject
                  /\ \A f \in ConfigFields : f \in DOMAIN o /\ o[f].t = "string"
  IN
  /\ bud_json.st = "missing" => ~r.ok /\ r.err = "FileNotFound"
  /\ bud_json.st = "not_json" => ~r.ok /\ r.err = "ParseError"
  /\ bud_json.st = "json_other" \/ (isObject /\ ~conforms) =>
       ~r.ok /\ r.err = "ValidationError"
  /\ conforms =>
       /\ r.ok
       /\ r.config = ConfigData(o["name"].s, o["version"].s, o["description"].s)

C22_LoadConfigStep ==
  ret'.op = "load_config" /\ ret'.kind = "Ok" =>
    /\ bud_json.st = "json_object"
    /\ \A f \in ConfigFields :
         f \in DOMAIN bud_json.object /\ bud_json.object[f].t = "string"
    /\ ret'.root_config.name = bud_json.object["name"].s
    /\ ret'.root_config.version = bud_json.object["version"].s
    /\ ret'.root_config.description = bud_json.object["description"].s

C22_LoadConfig == []C22_LoadConfigNow /\ [][C22_LoadConfigStep]_vars

\* load_config returned the ConfigData of a bud.json whose name and
\* version differ.
C22_Witness ==
  /\ ret.op = "load_config" /\ ret.kind = "Ok"
  /\ ret.root_config.name = "bud" /\ ret.root_config.version = "0.1.0"

\* Every entry below a directory: its path relative to the directory, and
\* the content if it is a file.
RECURSIVE Entries(_, _)
Entries(tree, prefix) ==
  {[path |-> Append(prefix, f), kind |-> "file", content |-> tree.files[f]] :
     f \in DOMAIN tree.files}
    \cup {[path |-> Append(prefix, d), kind |-> "dir", content |-> ""] : d \in DOMAIN tree.dirs}
    \cup UNION {Entries(tree.dirs[d], Append(prefix, d)) : d \in DOMAIN tree.dirs}

\* ---------------------------------------------------------------------
\* C23: after a successful install(src) the directory
\* data_root/<manifest.name> exists, named after the manifest's name; it
\* holds every file and subdirectory of src at the same relative path with
\* the same content, and nothing else; and the cache maps manifest.name to
\* the manifest read from src/plugin.json.
C23_MirrorNow ==
  \A src \in TreeDirs, io \in IoOutcomes :
    LET o == Install(rootExists, disk, plugin_cache, src, io, src)
        name == src.json.m.name
    IN
    o.res.kind = "Ok" =>
      /\ o.res.name = name
      /\ o.root /\ o.disk[name].exists
      /\ o.disk[name].json = src.json
      /\ o.disk[name].wasm = src.wasm
      /\ Entries(o.disk[name].sub, <<>>) = Entries(src.sub, <<>>)
      /\ \A n \in Names \ {name} : o.disk[n] = disk[n]
      /\ name \in DOMAIN o.cache /\ o.cache[name] = src.json.m
      /\ \A n \in DOMAIN plugin_cache \ {name} : n \in DOMAIN o.cache /\ o.cache[n] = plugin_cache[n]

C23_InstallStep ==
  ret'.op = "install" /\ ret'.kind = "Ok" =>
    /\ ~disk[ret'.name].exists /\ disk'[ret'.name].exists
    /\ disk'[ret'.name].json.st = "valid" /\ disk'[ret'.name].json.m.name = ret'.name
    /\ plugin_cache'[ret'.name] = disk'[ret'.name].json.m

C23_InstallMirrors == []C23_MirrorNow /\ [][C23_InstallStep]_vars

\* A plugin with a file and a subdirectory holding a file was installed.
C23_Witness ==
  /\ ret.op = "install" /\ ret.kind = "Ok"
  /\ [path |-> <<"assets", "README">>, kind |-> "file", content |-> "v1"]
       \in Entries(disk[ret.name].sub, <<>>)
  /\ [path |-> <<"empty">>, kind |-> "dir", content |-> ""] \in Entries(disk[ret.name].sub, <<>>)
  /\ plugin_cache[ret.name] = disk[ret.name].json.m

\* ---------------------------------------------------------------------
\* C26: when install fails after the destination directory was created
\* (a directory creation or copy error inside it), the destination is left
\* in place and no cache entry is added; a following install of the same
\* manifest name is then rejected with "already installed" although the
\* earlier install never completed.
C26_LeakNow ==
  \A src \in SourceDirs, io \in IoOutcomes :
    \A partial \in PartialCopies(src) :
      LET o == Install(rootExists, disk, plugin_cache, src, io, partial)
          name == src.json.m.name
      IN
      o.res.kind = "IoError" /\ name \in Names /\ ~disk[name].exists /\ o.disk[name].exists =>
        /\ o.cache = plugin_cache
        /\ o.disk[name].json = partial.json /\ o.disk[name].wasm = partial.wasm
        /\ \A again \in SourceDirs, io2 \in IoOutcomes :
             again.exists /\ again.json.st = "valid" /\ again.json.m.name = name =>
               LET o2 == Install(o.root, o.disk, o.cache, again, io2, again) IN
               /\ o2.res.kind = "InstallError"
               /\ o2.res.msg = <<"plugin ", name, " is already installed">>
               /\ o2.disk = o.disk /\ o2.cache = o.cache

C26_RejectedStep ==
  /\ ret.op = "install" /\ ret.kind = "IoError" /\ ret.msg = <<"copy_dir_recursive">>
  /\ ret'.op = "install" /\ ret'.name = ret.name
  => /\ ret'.kind = "InstallError"
     /\ ret'.msg = <<"plugin ", ret.name, " is already installed">>
     /\ disk' = disk /\ plugin_cache' = plugin_cache

C26_PartialInstallLeaks == []C26_LeakNow /\ [][C26_RejectedStep]_vars

\* A copy has failed and left the destination without a cache entry, and
\* installing that plugin again is refused.
C26_Witness ==
  /\ ret.op = "install" /\ ret.kind = "IoError" /\ ret.msg = <<"copy_dir_recursive">>
  /\ disk[ret.name].exists /\ disk[ret.name].json.st = "missing"
  /\ ret.name \notin DOMAIN plugin_cache
  /\ \E again \in ShippedDirs :
       /\ again.json.m.name = ret.name
       /\ Install(rootExists, disk, plugin_cache, again, "ok", again).res.msg
            = <<"plugin ", ret.name, " is already installed">>

C30_FailedLoadNow ==
  \A name \in Names, engine \in EngineOutcomes :
    LET pl == ProviderLoad(disk, instance, plugins, stores, Join(DataRoot, name), engine)
        g == Get(disk, plugin_cache, name)
        l == Load(disk, plugin_cache, instance, plugins, stores, name, engine)
    IN
    /\ ~pl.ok =>
         /\ pl.kind = "LoadFailed"
         /\ pl.plugins = plugins /\ pl.stores = stores
         /\ name \in DOMAIN plugins =>
              LET i == ProviderInvoke(pl.plugins, pl.stores, name, "Sum", <<I32(1), I32(2)>>) IN
              i.ok /\ i.val = I32(3) /\ i.guestCalled
    /\ l.res.kind = "LoadError" /\ l.res.providerError = "LoadFailed" =>
         /\ g.res.kind = "Ok"
         /\ l.plugins = plugins /\ l.stores = stores
         /\ name \in DOMAIN l.cache /\ l.cache[name] = g.res.config
         /\ \A n \in DOMAIN plugin_cache : n \in DOMAIN l.cache /\ l.cache[n] = plugin_cache[n]

C30_FailedLoadStep ==
  ret'.op = "load" /\ ret'.providerError = "LoadFailed" =>
    /\ plugins' = plugins /\ stores' = stores
    /\ ret'.name \in DOMAIN plugin_cache'

C30_FailedLoadKeepsMap == []C30_FailedLoadNow /\ [][C30_FailedLoadStep]_vars

\* The re-load of a plugin that the provider had loaded failed in the
\* provider, after its get step had read the manifest from disk: the plugin
\* is still registered, with its store, and the manifest is cached.
C30_Witness ==
  /\ ret.op = "load" /\ ret.kind = "LoadError" /\ ret.providerError = "LoadFailed"
  /\ ret.readDisk
  /\ ret.name \in DOMAIN plugins /\ plugins[ret.name].store \in DOMAIN stores
  /\ ret.name \in DOMAIN plugin_cache
  /\ Invoke(disk, plugin_cache, plugins, stores, ret.name, "Sum", <<I32(1), I32(2)>>).res.val
       = I32(3)

\* C25: linker-engine coupling. In every reachable state, with init running
\* beside load and init called more than once, every registered plugin
\* instance was compiled, given its store and instantiated with the engine
\* and the linker of one WasmInstance that an init call has stored; and a
\* load that holds its read guard has used nothing but the WasmInstance
\* that is in the slot.
C25_Made(x) == x.engine \in 1..instance /\ x.store_engine = x.engine /\ x.linker = x.engine

C25_LinkerEngineCoupling ==
  /\ \A n \in DOMAIN plugins : C25_Made(plugins[n])
  /\ \A t \in Threads :
       LET f == threads[t] IN
       /\ f.pc \in {"load_reading", "load_compiled", "load_stored", "load_instantiated"}
            => t \in slot_lock.readers /\ slot_lock.writer = {} /\ instance > 0
       /\ f.pc \in {"load_compiled", "load_stored", "load_instantiated"} => f.engine = instance
       /\ f.pc \in {"load_stored", "load_instantiated"} => f.store_engine = instance
       /\ f.pc = "load_instantiated" => f.linker = instance

\* A plugin of the first WasmInstance is registered, a second init holds
\* the write guard, and a load on another thread waits to read the slot.
C25_Witness ==
  /\ instance = 1
  /\ \E n \in DOMAIN plugins : plugins[n].engine = 1 /\ C25_Made(plugins[n])
  /\ \E t, u \in Threads :
       threads[t].pc = "init_locked" /\ threads[u].pc = "load_checked"

\* C27: poisoned-lock recovery. After a thread has panicked with the
\* plugin-map guard or the instance-slot write guard out, no init, load,
\* invoke or with_plugins call fails on the poison: a call that waits for a
\* lock leaves its wait only with the guard, it can take the guard whenever
\* the lock is free, and the map holds nothing but whole instances: each
\* under its own name, with a live store of its own and made by an init.
C27_Now ==
  /\ ret.kind # "PoisonError"
  /\ \A n \in DOMAIN plugins :
       /\ plugins[n].module_name = n
       /\ plugins[n].store \in DOMAIN stores
       /\ plugins[n].linker \in 1..instance
       /\ \A m \in DOMAIN plugins : plugins[m].store = plugins[n].store => m = n
  /\ \A t \in Threads :
       /\ threads[t].pc \in {"wp_wait", "invoke_wait", "load_instantiated"} /\ mutex = <<>>
            => ENABLED (WithPluginsLock(t) \/ InvokeLock(t) \/ LoadInsert(t))
       /\ threads[t].pc = "init_built" /\ slot_lock = Unlocked => ENABLED InitWrite(t)
       /\ threads[t].pc = "load_checked" /\ slot_lock.writer = {} => ENABLED LoadRead(t)

C27_Step ==
  \A t \in Threads :
    LET f == threads[t]
        g == threads'[t]
    IN
    /\ f.pc = "init_built" /\ g.pc # f.pc => g.pc = "init_locked" /\ slot_lock'.writer = {t}
    /\ f.pc = "load_checked" /\ g.pc # f.pc /\ instance > 0
         => g.pc = "load_reading" /\ t \in slot_lock'.readers
    /\ f.pc = "wp_wait" /\ g.pc # f.pc => g.pc = "wp_locked" /\ mutex' = <<t>>
    /\ f.pc = "invoke_wait" /\ g.pc # f.pc => g.pc = "invoke_locked" /\ mutex' = <<t>>
    /\ f.pc = "load_instantiated" /\ g.pc # f.pc /\ ret'.kind # "Panic"
         => ret'.kind = "Ok" /\ f.name \in DOMAIN plugins' /\ plugins'[f.name].store = f.store

C27_PoisonRecovery == []C27_Now /\ [][C27_Step]_vars

\* Both locks are poisoned, and one thread holds the plugin-map guard in
\* invoke while the other holds the write guard in init.
C27_Witness ==
  /\ poisoned.plugins /\ poisoned.instance
  /\ \E t, u \in Threads : threads[t].pc = "invoke_locked" /\ threads[u].pc = "init_locked"
  /\ plugins # EmptyMap

\* C28: the names registered in the plugin map never shrink: no step of
\* init, load, invoke or with_plugins removes a key. Hence a plugin that
\* has passed the membership check of PluginManager::invoke is in the map
\* when Provider.invoke looks it up under its own lock acquisition, whatever
\* the other thread does in between; Provider.invoke never answers "Plugin
\* not found" to the manager.
C28_Now ==
  /\ \A t \in Threads :
       threads[t].pc \in {"invoke_wait", "invoke_locked"} =>
         /\ threads[t].checked
         /\ threads[t].name \in DOMAIN plugins
         /\ ProviderInvoke(plugins, stores, threads[t].name, threads[t].function,
                           threads[t].args).guestCalled
  /\ ret.providerInvoked =>
       /\ ret.kind = "Ok"
       /\ ret.val = I32(3)
       /\ ret.name \in DOMAIN plugins

C28_Step == DOMAIN plugins \subseteq DOMAIN plugins'

C28_NamesNeverShrink == []C28_Now /\ [][C28_Step]_vars

\* A thread has passed the check and waits for the lock of Provider.invoke
\* while the other thread holds it in with_plugins; init has run twice and
\* the plugin is registered under the second WasmInstance.
C28_Witness ==
  \E t, u \in Threads :
    /\ threads[t].pc = "invoke_wait"
    /\ threads[u].pc = "wp_locked"
    /\ instance = 2
    /\ plugins[threads[t].name].engine = 2

\* C29: no interleaving of init, load, invoke and with_plugins on one
\* provider deadlocks. load waits for the plugin-map lock holding only its
\* read guard, init holds and waits for nothing but the write guard, invoke
\* and with_plugins hold only the plugin-map guard and wait for nothing
\* while they hold it, and nobody waits for a lock it holds; so some call in
\* progress can always take a step, and every call that has started
\* completes when guest calls return and threads are scheduled fairly.
C29_Now ==
  /\ \A t \in Threads :
       LET pc == threads[t].pc IN
       /\ HoldsMutex(t) <=> pc \in {"wp_locked", "invoke_locked"}
       /\ t \in slot_lock.writer <=> pc = "init_locked"
       /\ t \in slot_lock.readers
            <=> pc \in {"load_reading", "load_compiled", "load_stored", "load_instantiated"}
       /\ pc \in {"wp_wait", "invoke_wait", "init_built", "load_checked"}
            => ~HoldsMutex(t) /\ t \notin slot_lock.readers \cup slot_lock.writer
  /\ Len(mutex) <= 1
  /\ Cardinality(slot_lock.writer) <= 1
  /\ slot_lock.writer # {} => slot_lock.readers = {}
  /\ (\E t \in Threads : threads[t].pc # "idle")
       => \E t \in Threads : ENABLED (Acquire(t) \/ Advance(t))

C31_NotInitialized == <<"Provider not initialized. Call init() first.">>

C31_Now ==
  instance = 0 =>
    /\ plugins = EmptyMap
    /\ stores = EmptyMap
    /\ ret.op \in {"Provider.load", "load", "Provider.invoke", "invoke"} => ret.kind # "Ok"
    /\ ret.op = "Provider.load" =>
         /\ ret.kind = "LoadFailed"
         /\ disk[ret.name].exists /\ disk[ret.name].wasm => ret.msg = C31_NotInitialized
         /\ ~(disk[ret.name].exists /\ disk[ret.name].wasm)
              => ret.msg = <<"main.wasm", " not found: ", ret.name>>
    /\ \A name \in Names :
         /\ \A engine \in EngineOutcomes :
              LET l == ProviderLoad(disk, instance, plugins, stores, Join(DataRoot, name), engine)
                  m == Load(disk, plugin_cache, instance, plugins, stores, name, engine)
              IN
              /\ ~l.ok /\ l.kind = "LoadFailed" /\ l.plugins = plugins /\ l.stores = stores
              /\ m.res.kind # "Ok" /\ m.plugins = plugins /\ m.stores = stores
         /\ \A call \in CallsMade :
              /\ ~ProviderInvoke(plugins, stores, name, call[1], call[2]).ok
              /\ Invoke(disk, plugin_cache, plugins, stores, name, call[1], call[2]).res.kind
                   # "Ok"

C31_Step ==
  instance = 0 /\ instance' = 0 => plugins' = plugins /\ stores' = stores

C32_FromItsPath(info) ==
  LET dir == FileName(info.path) IN
  /\ info.path = Join(DataRoot, dir)
  /\ disk[dir].exists
  /\ disk[dir].json = JsonValid(info.config)

C32_PathIsSource ==
  /\ ret.op = "get_all" /\ ret.kind = "Ok" => \A info \in ret.infos : C32_FromItsPath(info)
  /\ ret.op = "get" /\ ret.kind = "Ok" =>
       /\ ret.path = Join(DataRoot, ret.name)
       /\ C32_FromItsPath([config |-> ret.config, path |-> ret.path])
====
